---- MODULE Spec2Model ----
(***************************************************************************)
(* Graph editor (force/manual switch): the graph model, the selection set, *)
(* the dialogs and the pointer/keyboard handlers of the combined editor.   *)
(*                                                                         *)
(* Ids are modelled by their counter value: the id `node-7` is 7 and the   *)
(* id `edge-7` is 7 (the two id spaces are kept in different fields).      *)
(* Coordinates are fixed-point numbers, SCALE units per pixel.             *)
(***************************************************************************)
EXTENDS Integers, Sequences, FiniteSets, TLC

(***************************************************************************)
(* Bounds of the model                                                     *)
(***************************************************************************)
\* number of satellites of the seeded graph (100 in the source)
nNodes == 1
\* node and edge creation stops when the counters reach these values
MaxNodeCounter == 2
MaxEdgeCounter == 2
\* pointer move events handled in one run
MaxMoves == 2
\* changes made to the fields of the edit dialog in one run
MaxFieldEdits == 3
\* the clock stops at this time (seconds)
MaxClock == 2

(***************************************************************************)
(* Program constants                                                       *)
(***************************************************************************)
SCALE == 10
clickThreshold == 3
repelDistance == 80
maxRecursionDepth == 100
canvasWidth == 1700
canvasHeight == 700

Null == <<>>
Some(v) == <<v>>

\* texts typed into the dialogs' name fields
Names == {" ", "a "}

\* String.prototype.trim on the texts above
Trim(s) == CASE s = " " -> ""
             [] s = "a " -> "a"
             [] OTHER -> s

VARIABLES
    nodes, edges, nodeCounter, edgeCounter, mode,
    selectedNodeIds, selectedEdgeIds,
    showCreateNodeDialog, pendingNodePosition, createNodeName,
    showCreateEdgeDialog, pendingEdge, createEdgeName,
    showCreateEdgeAndNodeDialog, pendingEdgeSourceNode, pendingEdgeStart,
    pendingEdgeEnd, newEdgeName, newNodeName, lastEdgeName,
    isDraggingNode, isDraggingForEdge, dragSourceNode,
    dragStartPosition, draggedNode, dragOffsets, justCompletedEdgeCreation,
    isRightClickDraggingFromCanvas, rightClickDragStartPos,
    simulation, gesture, pendingClick, moveCount,
    isSelecting, selectionStart, transform,
    showEditDialog, editType, editItem, editLabel, editProperties,
    savedFile, localStorage, flushed, now, uncaughtError, fieldEdits,
    animationFrameId, frameRequests, repulsion

graphVars == <<nodes, edges, nodeCounter, edgeCounter>>
selVars == <<selectedNodeIds, selectedEdgeIds>>
nodeDlgVars == <<showCreateNodeDialog, pendingNodePosition, createNodeName>>
edgeDlgVars == <<showCreateEdgeDialog, pendingEdge, createEdgeName>>
bothDlgVars == <<showCreateEdgeAndNodeDialog, pendingEdgeSourceNode,
                 pendingEdgeStart, pendingEdgeEnd, newEdgeName, newNodeName,
                 lastEdgeName>>
dragVars == <<isDraggingNode, isDraggingForEdge, dragSourceNode,
              dragStartPosition, draggedNode, dragOffsets, gesture,
              moveCount>>
rightVars == <<isRightClickDraggingFromCanvas, rightClickDragStartPos>>

\* box selection on the canvas and the zoom transform of the canvas
boxVars == <<isSelecting, selectionStart, transform>>
\* the edit dialog
editVars == <<showEditDialog, editType, editItem, editLabel, editProperties>>
\* the pending redraw, the animation frames requested and not yet run, and
\* the record of the last invocation of the local repulsion propagator
layoutVars == <<animationFrameId, frameRequests, repulsion>>
\* the item 'graph-editor-autosave' of the browser's localStorage, and the
\* node and edge arrays as they were when the component last ran its
\* reactive statements
autosaveVars == <<localStorage, flushed>>
\* the box selection, the edit dialog, the last file written by Save or
\* Download, the clock, whether a handler has ended in an uncaught exception,
\* the number of changes made to the fields of the edit dialog, and the
\* layout records
extVars == <<boxVars, editVars, savedFile, autosaveVars, now, uncaughtError,
             fieldEdits, layoutVars>>

vars == <<graphVars, mode, selVars, nodeDlgVars, edgeDlgVars, bothDlgVars,
          dragVars, justCompletedEdgeCreation, rightVars, simulation,
          pendingClick, extVars>>

(***************************************************************************)
(* Helpers on the node and edge arrays                                     *)
(***************************************************************************)
NodeIds(ns) == {ns[i].id : i \in DOMAIN ns}
EdgeIds(es) == {es[i].id : i \in DOMAIN es}

\* Array.prototype.find on the node id: the first index holding it, 0 if none
IndexOf(ns, id) ==
    IF \E i \in DOMAIN ns : ns[i].id = id
    THEN CHOOSE i \in DOMAIN ns :
            ns[i].id = id /\ \A j \in 1..(i - 1) : ns[j].id # id
    ELSE 0

(***************************************************************************)
(* Typed property values.  A value is a string, a number, an ISO time      *)
(* string (modelled by its time in seconds), the text of a datetime-local  *)
(* input (modelled by its time in minutes) or NaN.                         *)
(***************************************************************************)
Str(x) == [tag |-> "str", s |-> x, n |-> 0]
Num(k) == [tag |-> "num", s |-> "", n |-> k]
Iso(t) == [tag |-> "iso", s |-> "", n |-> t]
Local(m) == [tag |-> "local", s |-> "", n |-> m]
NaN == [tag |-> "nan", s |-> "", n |-> 0]

\* seconds in a minute, scaled down with the clock of the model
SecondsPerMinute == 2

\* a property: key, type tag and value; an object's properties are kept in
\* insertion order, as Object.entries lists them
Property(key, type, value) == [key |-> key, type |-> type, value |-> value]

\* a datetime property; times are whole seconds
DateTime(key, t) == Property(key, "datetime", Iso(t))

\* the properties of a new node or edge
NewProperties(t) == <<DateTime("createdAt", t), DateTime("editedAt", t)>>

\* a new node; fx, fy (pin) and vx, vy (velocity) are absent
NewNode(id, x, y, label) ==
    [id |-> id, x |-> x, y |-> y, fx |-> Null, fy |-> Null,
     vx |-> Null, vy |-> Null, label |-> label,
     properties |-> NewProperties(now)]

\* an edge record with source and target exchanged
NewEdge_Reversed(id, source, target, name) ==
    [id |-> id, source |-> target, target |-> source, name |-> name,
     properties |-> NewProperties(now)]

NewEdge(id, source, target, name) ==
    [id |-> id, source |-> source, target |-> target, name |-> name,
     properties |-> NewProperties(now)]

\* a modal dialog covers the page: pointer input reaches the canvas and the
\* toolbar only while none is shown
NoDialog ==
    /\ ~showCreateNodeDialog
    /\ ~showCreateEdgeDialog
    /\ ~showCreateEdgeAndNodeDialog
    /\ ~showEditDialog

\* no pointer gesture is in progress
NoGesture ==
    /\ gesture = Null
    /\ pendingClick = Null
    /\ ~isRightClickDraggingFromCanvas
    /\ ~isSelecting

\* the user's next input comes after the short timers set by the previous
\* one (100 ms for the edge-creation flag, 200 ms for the simulation stop)
\* have fired
TimersIdle ==
    /\ ~justCompletedEdgeCreation
    /\ simulation.stopTimers = 0

(***************************************************************************)
(* Force simulation handle                                                 *)
(***************************************************************************)
\* alpha and alphaTarget in thousandths
restartSimulation(sim) == [sim EXCEPT !.alpha = 300, !.running = TRUE]

\* the seeded graph: a centre and nNodes satellites on a circle of radius 250
\* (250*cos and 250*sin of 2*pi*i/n, in fixed point, for the sizes used)
CircleX(i, n) ==
    CASE n = 1 -> 250 * SCALE
      [] n = 2 -> IF i = 1 THEN -250 * SCALE ELSE 250 * SCALE
      [] n = 3 -> IF i = 3 THEN 250 * SCALE ELSE -125 * SCALE
      [] OTHER -> IF i % 4 = 0 THEN 250 * SCALE
                  ELSE IF i % 4 = 2 THEN -250 * SCALE ELSE 0

CircleY(i, n) ==
    CASE n = 1 -> 0
      [] n = 2 -> 0
      [] n = 3 -> IF i = 1 THEN (21651 * SCALE) \div 100
                  ELSE IF i = 2 THEN -((21651 * SCALE) \div 100) ELSE 0
      [] OTHER -> IF i % 4 = 1 THEN 250 * SCALE
                  ELSE IF i % 4 = 3 THEN -250 * SCALE ELSE 0

spawnTestGraphNodes ==
    [i \in 1..(nNodes + 1) |->
        IF i = 1
        THEN NewNode(0, (canvasWidth \div 2) * SCALE,
                     (canvasHeight \div 2) * SCALE, "Center")
        ELSE NewNode(i - 1,
                     (canvasWidth \div 2) * SCALE + CircleX(i - 1, nNodes),
                     (canvasHeight \div 2) * SCALE + CircleY(i - 1, nNodes),
                     "Node")]

spawnTestGraphEdges ==
    [i \in 1..nNodes |-> NewEdge(i, 0, i, "Edge")]

InitDialogs ==
    /\ showCreateNodeDialog = FALSE
    /\ pendingNodePosition = Null
    /\ createNodeName = ""
    /\ showCreateEdgeDialog = FALSE
    /\ pendingEdge = Null
    /\ createEdgeName = ""
    /\ showCreateEdgeAndNodeDialog = FALSE
    /\ pendingEdgeSourceNode = Null
    /\ pendingEdgeStart = Null
    /\ pendingEdgeEnd = Null
    /\ newEdgeName = ""
    /\ newNodeName = ""
    /\ lastEdgeName = ""

InitGestures ==
    /\ isDraggingNode = FALSE
    /\ isDraggingForEdge = FALSE
    /\ dragSourceNode = Null
    /\ dragStartPosition = Null
    /\ draggedNode = Null
    /\ dragOffsets = <<>>
    /\ justCompletedEdgeCreation = FALSE
    /\ isRightClickDraggingFromCanvas = FALSE
    /\ rightClickDragStartPos = Null
    /\ gesture = Null
    /\ pendingClick = Null
    /\ moveCount = 0

\* the record of an invocation of the propagator: the calls whose forEach
\* over pushedNodes is not finished (innermost first), the number of calls
\* and of node displacements so far, the greatest depth of a call that passed
\* the depth test, and the node array and source of the outermost call; here
\* no invocation has been made
RepulsionIdle ==
    [stack |-> <<>>, calls |-> 0, moves |-> 0, depth |-> 0, start |-> <<>>,
     source |-> 0]

\* no box selection, identity zoom, no edit dialog, nothing saved, no redraw
\* pending
InitExt ==
    /\ isSelecting = FALSE
    /\ selectionStart = <<0, 0>>
    /\ transform = [k |-> 1, x |-> 0, y |-> 0]
    /\ showEditDialog = FALSE
    /\ editType = Null
    /\ editItem = Null
    /\ editLabel = ""
    /\ editProperties = <<>>
    /\ savedFile = Null
    /\ localStorage = Null
    /\ flushed = <<<<>>, <<>>>>
    /\ now = 0
    /\ uncaughtError = FALSE
    /\ fieldEdits = 0
    /\ animationFrameId = Null
    /\ frameRequests = 0
    /\ repulsion = RepulsionIdle

\* the state after onMount with no autosave: the seeded graph, force mode
Init ==
    /\ InitExt
    /\ nodes = spawnTestGraphNodes
    /\ edges = spawnTestGraphEdges
    /\ nodeCounter = nNodes
    /\ edgeCounter = nNodes
    /\ mode = "force"
    /\ selectedNodeIds = {}
    /\ selectedEdgeIds = {}
    /\ simulation = [alpha |-> 300, alphaTarget |-> 0, running |-> TRUE,
                     stopTimers |-> 0]
    /\ InitDialogs
    /\ InitGestures

(***************************************************************************)
(* Selection                                                               *)
(***************************************************************************)
\* the two selection sets after selectNode(node, event)
selectNode(id, shiftKey) ==
    IF shiftKey
    THEN [n |-> IF id \in selectedNodeIds
                THEN selectedNodeIds \ {id}
                ELSE selectedNodeIds \cup {id},
          e |-> selectedEdgeIds]
    ELSE [n |-> {id}, e |-> {}]

\* the two selection sets after selectEdge(edge, event)
selectEdge(id, shiftKey) ==
    IF shiftKey
    THEN [n |-> selectedNodeIds,
          e |-> IF id \in selectedEdgeIds
                THEN selectedEdgeIds \ {id}
                ELSE selectedEdgeIds \cup {id}]
    ELSE [n |-> {}, e |-> {id}]

clearSelection ==
    /\ selectedNodeIds' = {}
    /\ selectedEdgeIds' = {}

\* click on an edge
EdgeClick(j, shiftKey) ==
    /\ TimersIdle
    /\ NoDialog /\ NoGesture
    /\ j \in DOMAIN edges
    /\ LET r == selectEdge(edges[j].id, shiftKey)
       IN /\ selectedNodeIds' = r.n
          /\ selectedEdgeIds' = r.e
    /\ UNCHANGED <<graphVars, mode, nodeDlgVars, edgeDlgVars, bothDlgVars,
                   dragVars, justCompletedEdgeCreation, rightVars,
                   simulation, pendingClick>>
    /\ UNCHANGED extVars

(***************************************************************************)
(* Graph mutations                                                         *)
(***************************************************************************)
\* the node array after addNode(x, y, label)
addNode(x, y, label) == Append(nodes, NewNode(nodeCounter + 1, x, y, label))

\* deleteNode filtering on the source only
deleteNodeEdges_SourceOnly(es, id) ==
    SelectSeq(es, LAMBDA e : e.source # id)

\* the edge array after deleteNode
deleteNodeEdges(es, id) ==
    SelectSeq(es, LAMBDA e : e.source # id /\ e.target # id)

\* the node array after deleteNode
deleteNodeNodes(ns, id) == SelectSeq(ns, LAMBDA n : n.id # id)

\* the edge array after deleteEdge
deleteEdgeEdges(es, id) == SelectSeq(es, LAMBDA e : e.id # id)

\* middle-button press on a node
NodeMiddleClick(i) ==
    /\ TimersIdle
    /\ NoDialog /\ NoGesture
    /\ i \in DOMAIN nodes
    /\ edges' = deleteNodeEdges(edges, nodes[i].id)
    /\ nodes' = deleteNodeNodes(nodes, nodes[i].id)
    /\ simulation' = IF mode = "force" THEN restartSimulation(simulation)
                     ELSE simulation
    /\ UNCHANGED <<nodeCounter, edgeCounter, mode, selVars, nodeDlgVars,
                   edgeDlgVars, bothDlgVars, dragVars,
                   justCompletedEdgeCreation, rightVars, pendingClick>>
    /\ UNCHANGED extVars

\* middle-button press on an edge
EdgeMiddleClick(j) ==
    /\ TimersIdle
    /\ NoDialog /\ NoGesture
    /\ j \in DOMAIN edges
    /\ edges' = deleteEdgeEdges(edges, edges[j].id)
    /\ simulation' = IF mode = "force" THEN restartSimulation(simulation)
                     ELSE simulation
    /\ UNCHANGED <<nodes, nodeCounter, edgeCounter, mode, selVars,
                   nodeDlgVars, edgeDlgVars, bothDlgVars, dragVars,
                   justCompletedEdgeCreation, rightVars, pendingClick>>
    /\ UNCHANGED extVars

\* Delete that removes the selected edges and nodes but not the edges of
\* the removed nodes
handleKeyDownEdges_NoCascade(es, selE, selN) ==
    IF selE # {}
    THEN SelectSeq(es, LAMBDA e : e.id \notin selE)
    ELSE es

\* the edge array after Delete or Backspace: the selected edges go first, then
\* the edges of the selected nodes
handleKeyDownEdges(es, selE, selN) ==
    LET es1 == IF selE # {}
               THEN SelectSeq(es, LAMBDA e : e.id \notin selE)
               ELSE es
    IN IF selN # {}
       THEN SelectSeq(es1, LAMBDA e : /\ e.source \notin selN
                                      /\ e.target \notin selN)
       ELSE es1

\* Delete, Backspace or Escape with the focus outside a text field
HandleKeyDown(key) ==
    /\ TimersIdle
    /\ NoGesture
    /\ key \in {"Delete", "Escape"}
    /\ IF key = "Delete"
       THEN /\ edges' = handleKeyDownEdges(edges, selectedEdgeIds,
                                           selectedNodeIds)
            /\ nodes' = SelectSeq(nodes,
                            LAMBDA n : n.id \notin selectedNodeIds)
            /\ simulation' = IF mode = "force"
                             THEN restartSimulation(simulation)
                             ELSE simulation
       ELSE UNCHANGED <<nodes, edges, simulation>>
    /\ clearSelection
    /\ UNCHANGED <<nodeCounter, edgeCounter, mode, nodeDlgVars, edgeDlgVars,
                   bothDlgVars, dragVars, justCompletedEdgeCreation,
                   rightVars, pendingClick>>
    /\ UNCHANGED extVars

\* the Clear and New buttons, confirmed
ClearGraph ==
    /\ TimersIdle
    /\ NoDialog /\ NoGesture
    /\ nodes' = <<>>
    /\ edges' = <<>>
    /\ nodeCounter' = 0
    /\ edgeCounter' = 0
    /\ clearSelection
    /\ simulation' = [simulation EXCEPT !.running = FALSE]
    /\ UNCHANGED <<mode, nodeDlgVars, edgeDlgVars, bothDlgVars, dragVars,
                   justCompletedEdgeCreation, rightVars, pendingClick>>
    /\ UNCHANGED extVars

\* files offered to the Load button: a saved graph, a graph with an edge
\* whose target is missing and no counters, and an empty object
GraphFiles ==
    { [nodes |-> <<NewNode(1, 0, 0, "a"), NewNode(2, 100 * SCALE, 0, "a")>>,
       edges |-> <<NewEdge(1, 1, 2, "a")>>,
       nodeCounter |-> 2, edgeCounter |-> 1, mode |-> "manual"],
      [nodes |-> <<NewNode(1, 0, 0, "a")>>,
       edges |-> <<NewEdge(1, 1, 5, "a")>>,
       nodeCounter |-> 0, edgeCounter |-> 0, mode |-> "force"],
      [nodes |-> <<>>, edges |-> <<>>,
       nodeCounter |-> 0, edgeCounter |-> 0, mode |-> "force"] }

\* the Load button, after a file was picked and parsed
LoadGraphData(graphData) ==
    /\ TimersIdle
    /\ NoDialog /\ NoGesture
    /\ nodes' = graphData.nodes
    /\ edges' = graphData.edges
    /\ nodeCounter' = graphData.nodeCounter
    /\ edgeCounter' = graphData.edgeCounter
    /\ mode' = graphData.mode
    /\ clearSelection
    /\ simulation' = restartSimulation(simulation)
    /\ UNCHANGED <<nodeDlgVars, edgeDlgVars, bothDlgVars, dragVars,
                   justCompletedEdgeCreation, rightVars, pendingClick>>
    /\ UNCHANGED extVars

\* switchMode(newMode) called with the current mode already at `cur`
switchMode(cur, newMode, sim) ==
    IF cur = newMode THEN sim
    ELSE IF newMode = "force"
         THEN [alpha |-> 300, alphaTarget |-> 0, running |-> TRUE,
               stopTimers |-> sim.stopTimers]
         ELSE [sim EXCEPT !.running = FALSE]

\* a mode radio button is chosen: the group binding stores the new mode and
\* the change handler then calls switchMode with it
ModeRadioChange(newMode) ==
    /\ TimersIdle
    /\ NoDialog /\ NoGesture
    /\ newMode \in {"force", "manual"}
    /\ newMode # mode
    /\ mode' = newMode
    /\ simulation' = switchMode(newMode, newMode, simulation)
    /\ UNCHANGED <<graphVars, selVars, nodeDlgVars, edgeDlgVars, bothDlgVars,
                   dragVars, justCompletedEdgeCreation, rightVars,
                   pendingClick>>
    /\ UNCHANGED extVars

(***************************************************************************)
(* Create-node dialog                                                      *)
(***************************************************************************)
\* context-menu event on the canvas background at pointer position pos
HandleCanvasClick(pos, shiftKey) ==
    /\ TimersIdle
    /\ NoDialog
    /\ gesture = Null /\ pendingClick = Null
    /\ ~isRightClickDraggingFromCanvas
    /\ ~justCompletedEdgeCreation
    /\ pendingNodePosition' = Some(pos)
    /\ createNodeName' = ""
    /\ showCreateNodeDialog' = TRUE
    /\ IF ~shiftKey THEN clearSelection ELSE UNCHANGED selVars
    /\ UNCHANGED <<graphVars, mode, edgeDlgVars, bothDlgVars, dragVars,
                   justCompletedEdgeCreation, rightVars, simulation,
                   pendingClick>>
    /\ UNCHANGED extVars

\* a hit test that passes through the backdrop of a dialog
ContextMenuTarget_Through ==
    "canvas"

\* the element under a pointer that is over the canvas background: the
\* backdrop of a dialog (position fixed, inset 0) while one is shown
ContextMenuTarget ==
    IF NoDialog THEN "canvas" ELSE "backdrop"

\* the context-menu event the browser raises for a secondary-button press
\* or release over the canvas background, delivered before or after the
\* timers set by the release have expired
HandleContextMenu(pos, shiftKey) ==
    /\ gesture = Null /\ pendingClick = Null
    /\ ~isSelecting
    /\ ContextMenuTarget = "canvas"
    /\ ~isRightClickDraggingFromCanvas
    /\ ~justCompletedEdgeCreation
    /\ pendingNodePosition' = Some(pos)
    /\ createNodeName' = ""
    /\ showCreateNodeDialog' = TRUE
    /\ IF ~shiftKey THEN clearSelection ELSE UNCHANGED selVars
    /\ UNCHANGED <<graphVars, mode, edgeDlgVars, bothDlgVars, dragVars,
                   justCompletedEdgeCreation, rightVars, simulation,
                   pendingClick>>
    /\ UNCHANGED extVars

\* text typed into the create-node dialog
TypeCreateNodeName(text) ==
    /\ TimersIdle
    /\ showCreateNodeDialog
    /\ text \in Names
    /\ text # createNodeName
    /\ createNodeName' = text
    /\ UNCHANGED <<graphVars, mode, selVars, showCreateNodeDialog,
                   pendingNodePosition, edgeDlgVars, bothDlgVars, dragVars,
                   justCompletedEdgeCreation, rightVars, simulation,
                   pendingClick>>
    /\ UNCHANGED extVars

closeCreateNodeDialog ==
    /\ showCreateNodeDialog' = FALSE
    /\ pendingNodePosition' = Null
    /\ createNodeName' = ""

\* OK or Enter in the create-node dialog
CreateNodeFromDialog ==
    /\ TimersIdle
    /\ showCreateNodeDialog
    /\ Trim(createNodeName) # "" => nodeCounter < MaxNodeCounter
    /\ IF pendingNodePosition # Null /\ Trim(createNodeName) # ""
       THEN /\ nodes' = addNode(pendingNodePosition[1][1],
                                pendingNodePosition[1][2],
                                Trim(createNodeName))
            /\ nodeCounter' = nodeCounter + 1
            /\ simulation' = restartSimulation(simulation)
       ELSE UNCHANGED <<nodes, nodeCounter, simulation>>
    /\ closeCreateNodeDialog
    /\ UNCHANGED <<edges, edgeCounter, mode, selVars, edgeDlgVars,
                   bothDlgVars, dragVars, justCompletedEdgeCreation,
                   rightVars, pendingClick>>
    /\ UNCHANGED extVars

\* Cancel or Escape in the create-node dialog
CloseCreateNodeDialog ==
    /\ TimersIdle
    /\ showCreateNodeDialog
    /\ closeCreateNodeDialog
    /\ UNCHANGED <<graphVars, mode, selVars, edgeDlgVars, bothDlgVars,
                   dragVars, justCompletedEdgeCreation, rightVars,
                   simulation, pendingClick>>
    /\ UNCHANGED extVars

(***************************************************************************)
(* Create-edge dialog                                                      *)
(***************************************************************************)
\* createEdge(source, target): opens the dialog
\* createEdge with the two nodes exchanged
createEdge_Swapped(source, target) ==
    /\ pendingEdge' = Some([source |-> target, target |-> source])
    /\ createEdgeName' = lastEdgeName
    /\ showCreateEdgeDialog' = TRUE

createEdge(source, target) ==
    /\ pendingEdge' = Some([source |-> source, target |-> target])
    /\ createEdgeName' = lastEdgeName
    /\ showCreateEdgeDialog' = TRUE

closeCreateEdgeDialog ==
    /\ showCreateEdgeDialog' = FALSE
    /\ pendingEdge' = Null
    /\ createEdgeName' = ""

\* text typed into the create-edge dialog
TypeCreateEdgeName(text) ==
    /\ TimersIdle
    /\ showCreateEdgeDialog
    /\ text \in Names
    /\ text # createEdgeName
    /\ createEdgeName' = text
    /\ UNCHANGED <<graphVars, mode, selVars, nodeDlgVars,
                   showCreateEdgeDialog, pendingEdge, bothDlgVars, dragVars,
                   justCompletedEdgeCreation, rightVars, simulation,
                   pendingClick>>
    /\ UNCHANGED extVars

\* the id given to the edge made by createEdgeFromDialog
createEdgeFromDialogId(counter) == counter

\* OK or Enter in the create-edge dialog
CreateEdgeFromDialog ==
    /\ TimersIdle
    /\ showCreateEdgeDialog
    /\ Trim(createEdgeName) # "" => edgeCounter < MaxEdgeCounter
    /\ IF Trim(createEdgeName) = "" \/ pendingEdge = Null
       THEN UNCHANGED <<edges, edgeCounter>>
       ELSE /\ edges' = Append(edges,
                           NewEdge(createEdgeFromDialogId(edgeCounter),
                                   pendingEdge[1].source,
                                   pendingEdge[1].target,
                                   createEdgeName))
            /\ edgeCounter' = edgeCounter + 1
    /\ closeCreateEdgeDialog
    /\ UNCHANGED <<nodes, nodeCounter, mode, selVars, nodeDlgVars,
                   bothDlgVars, dragVars, justCompletedEdgeCreation,
                   rightVars, simulation, pendingClick>>
    /\ UNCHANGED extVars

\* Cancel or Escape in the create-edge dialog
CloseCreateEdgeDialog ==
    /\ TimersIdle
    /\ showCreateEdgeDialog
    /\ closeCreateEdgeDialog
    /\ UNCHANGED <<graphVars, mode, selVars, nodeDlgVars, bothDlgVars,
                   dragVars, justCompletedEdgeCreation, rightVars,
                   simulation, pendingClick>>
    /\ UNCHANGED extVars

(***************************************************************************)
(* Combined create-node-and-edge dialog                                    *)
(***************************************************************************)
\* openCreateEdgeAndNodeDialog(sourceNode, start, end): sourceNode is Null or
\* Some(id); end carries targetId, Null when the drag started on a node
openCreateEdgeAndNodeDialog(sourceNode, start, end) ==
    /\ showCreateEdgeAndNodeDialog' = TRUE
    /\ pendingEdgeSourceNode' = sourceNode
    /\ pendingEdgeStart' = Some(start)
    /\ pendingEdgeEnd' = Some(end)
    /\ newEdgeName' = lastEdgeName
    /\ newNodeName' = ""
    /\ UNCHANGED lastEdgeName

closeCreateEdgeAndNodeDialog ==
    /\ showCreateEdgeAndNodeDialog' = FALSE
    /\ pendingEdgeSourceNode' = Null
    /\ pendingEdgeStart' = Null
    /\ pendingEdgeEnd' = Null
    /\ newEdgeName' = ""
    /\ newNodeName' = ""

\* text typed into the edge-name field of the combined dialog
TypeNewEdgeName(text) ==
    /\ TimersIdle
    /\ showCreateEdgeAndNodeDialog
    /\ text \in Names
    /\ text # newEdgeName
    /\ newEdgeName' = text
    /\ UNCHANGED <<graphVars, mode, selVars, nodeDlgVars, edgeDlgVars,
                   showCreateEdgeAndNodeDialog, pendingEdgeSourceNode,
                   pendingEdgeStart, pendingEdgeEnd, newNodeName,
                   lastEdgeName, dragVars, justCompletedEdgeCreation,
                   rightVars, simulation, pendingClick>>
    /\ UNCHANGED extVars

\* text typed into the node-name field of the combined dialog
TypeNewNodeName(text) ==
    /\ TimersIdle
    /\ showCreateEdgeAndNodeDialog
    /\ text \in Names
    /\ text # newNodeName
    /\ newNodeName' = text
    /\ UNCHANGED <<graphVars, mode, selVars, nodeDlgVars, edgeDlgVars,
                   showCreateEdgeAndNodeDialog, pendingEdgeSourceNode,
                   pendingEdgeStart, pendingEdgeEnd, newEdgeName,
                   lastEdgeName, dragVars, justCompletedEdgeCreation,
                   rightVars, simulation, pendingClick>>
    /\ UNCHANGED extVars

\* the branch with only the edge name tested
confirmCreateEdgeAndNodeBranch_EdgeNameOnly ==
    LET named == Trim(newEdgeName) # ""
    IN IF /\ pendingEdgeStart # Null /\ pendingEdgeEnd # Null /\ named
          /\ pendingEdgeEnd[1].targetId # Null
       THEN "fromCanvas"
       ELSE IF pendingEdgeSourceNode # Null /\ pendingEdgeEnd # Null /\ named
       THEN "fromNode"
       ELSE "none"

\* the branch confirmCreateEdgeAndNode takes: the drag came from the canvas
\* onto a node (targetId set), from a node onto the canvas, or nothing is
\* created
confirmCreateEdgeAndNodeBranch ==
    LET named == Trim(newEdgeName) # "" /\ Trim(newNodeName) # ""
    IN IF /\ pendingEdgeStart # Null /\ pendingEdgeEnd # Null /\ named
          /\ pendingEdgeEnd[1].targetId # Null
       THEN "fromCanvas"
       ELSE IF pendingEdgeSourceNode # Null /\ pendingEdgeEnd # Null /\ named
       THEN "fromNode"
       ELSE "none"

\* OK or Enter in the combined dialog
ConfirmCreateEdgeAndNode ==
    /\ TimersIdle
    /\ showCreateEdgeAndNodeDialog
    /\ confirmCreateEdgeAndNodeBranch # "none" =>
           (nodeCounter < MaxNodeCounter /\ edgeCounter < MaxEdgeCounter)
    /\ CASE confirmCreateEdgeAndNodeBranch = "fromCanvas" ->
               /\ lastEdgeName' = Trim(newEdgeName)
               /\ nodes' = Append(nodes,
                              NewNode(nodeCounter + 1,
                                      pendingEdgeStart[1].x,
                                      pendingEdgeStart[1].y,
                                      Trim(newNodeName)))
               /\ nodeCounter' = nodeCounter + 1
               /\ edges' = Append(edges,
                              NewEdge(edgeCounter + 1, nodeCounter + 1,
                                      pendingEdgeEnd[1].targetId[1],
                                      Trim(newEdgeName)))
               /\ edgeCounter' = edgeCounter + 1
               /\ simulation' = restartSimulation(simulation)
         [] confirmCreateEdgeAndNodeBranch = "fromNode" ->
               /\ lastEdgeName' = Trim(newEdgeName)
               /\ nodes' = Append(nodes,
                              NewNode(nodeCounter + 1,
                                      pendingEdgeEnd[1].x,
                                      pendingEdgeEnd[1].y,
                                      Trim(newNodeName)))
               /\ nodeCounter' = nodeCounter + 1
               /\ edges' = Append(edges,
                              NewEdge(edgeCounter + 1,
                                      pendingEdgeSourceNode[1],
                                      nodeCounter + 1,
                                      Trim(newEdgeName)))
               /\ edgeCounter' = edgeCounter + 1
               /\ simulation' = restartSimulation(simulation)
         [] OTHER -> UNCHANGED <<graphVars, lastEdgeName, simulation>>
    /\ closeCreateEdgeAndNodeDialog
    /\ UNCHANGED <<mode, selVars, nodeDlgVars, edgeDlgVars, dragVars,
                   justCompletedEdgeCreation, rightVars, pendingClick>>
    /\ UNCHANGED extVars

\* Cancel or Escape in the combined dialog
CloseCreateEdgeAndNodeDialog ==
    /\ TimersIdle
    /\ showCreateEdgeAndNodeDialog
    /\ closeCreateEdgeAndNodeDialog
    /\ UNCHANGED <<graphVars, mode, selVars, nodeDlgVars, edgeDlgVars,
                   lastEdgeName, dragVars, justCompletedEdgeCreation,
                   rightVars, simulation, pendingClick>>
    /\ UNCHANGED extVars

(***************************************************************************)
(* Secondary-button drag that starts on the canvas background              *)
(***************************************************************************)
HandleCanvasRightMouseDown(pos) ==
    /\ TimersIdle
    /\ NoDialog /\ NoGesture
    /\ isRightClickDraggingFromCanvas' = TRUE
    /\ rightClickDragStartPos' = Some(pos)
    /\ UNCHANGED <<graphVars, mode, selVars, nodeDlgVars, edgeDlgVars,
                   bothDlgVars, dragVars, justCompletedEdgeCreation,
                   simulation, pendingClick>>
    /\ UNCHANGED extVars

\* release of that drag; target is the index of the node under the pointer,
\* 0 over empty canvas
HandleCanvasRightMouseUp(target) ==
    /\ TimersIdle
    /\ isRightClickDraggingFromCanvas /\ rightClickDragStartPos # Null
    /\ target \in {0} \cup DOMAIN nodes
    /\ IF target # 0
       THEN openCreateEdgeAndNodeDialog(
                Null,
                [x |-> rightClickDragStartPos[1][1],
                 y |-> rightClickDragStartPos[1][2]],
                [x |-> nodes[target].x, y |-> nodes[target].y,
                 targetId |-> Some(nodes[target].id)])
       ELSE UNCHANGED bothDlgVars
    /\ isRightClickDraggingFromCanvas' = FALSE
    /\ rightClickDragStartPos' = Null
    /\ UNCHANGED <<graphVars, mode, selVars, nodeDlgVars, edgeDlgVars,
                   dragVars, justCompletedEdgeCreation, simulation,
                   pendingClick>>
    /\ UNCHANGED extVars

(***************************************************************************)
(* Local repulsion propagator (manual mode)                                *)
(***************************************************************************)
\* floor of the square root, by bisection on lo..hi
RECURSIVE ISqrtIn(_, _, _)
ISqrtIn(n, lo, hi) ==
    IF lo >= hi THEN lo
    ELSE LET mid == (lo + hi + 1) \div 2
         IN IF mid * mid <= n THEN ISqrtIn(n, mid, hi)
            ELSE ISqrtIn(n, lo, mid - 1)

ISqrt(n) == ISqrtIn(n, 0, repelDistance * SCALE)

Abs(v) == IF v < 0 THEN -v ELSE v
Sgn(v) == IF v < 0 THEN -1 ELSE 1

\* a push that also renames the node
PushNode_Renamed(n, sx, sy, mult) ==
    LET dx == n.x - sx
        dy == n.y - sy
        d2 == dx * dx + dy * dy
    IN IF d2 < (repelDistance * SCALE) * (repelDistance * SCALE) /\ d2 > 0
       THEN [n EXCEPT !.x = n.x + dx, !.y = n.y + dy, !.label = "moved"]
       ELSE n

\* one node after the push by a source at (sx, sy): repelStrength 0.3,
\* forceMultiplier mult in thousandths
PushNode(n, sx, sy, mult) ==
    LET dx == n.x - sx
        dy == n.y - sy
        d2 == dx * dx + dy * dy
    IN IF d2 < (repelDistance * SCALE) * (repelDistance * SCALE) /\ d2 > 0
       THEN LET distance == ISqrt(d2)
                t == (3 * mult * (repelDistance * SCALE - distance)) \div 10
                forceX == Sgn(dx) * ((Abs(dx) * t) \div (1000 * distance))
                forceY == Sgn(dy) * ((Abs(dy) * t) \div (1000 * distance))
            IN [n EXCEPT !.x = n.x + forceX, !.y = n.y + forceY]
       ELSE n

\* movedDistance > 1 for a node pushed from position old to position new
MovedFar(old, new) ==
    LET mx == new.x - old.x
        my == new.y - old.y
    IN mx * mx + my * my > SCALE * SCALE

RECURSIVE applyRepulsionForce(_, _, _, _, _)
RECURSIVE RepelPushed(_, _, _, _, _)

\* the node array after applyRepulsionForce for a source at (sx, sy)
applyRepulsionForce(ns, sx, sy, depth, mult) ==
    IF depth >= maxRecursionDepth THEN ns
    ELSE LET after == [k \in DOMAIN ns |-> PushNode(ns[k], sx, sy, mult)]
             pushed == {k \in DOMAIN ns : MovedFar(ns[k], after[k])}
         IN RepelPushed(after, pushed, 1, depth + 1, (mult * 6) \div 10)

\* pushedNodes.forEach: the recursive calls, in array order
RepelPushed(ns, pushed, k, depth, mult) ==
    IF k > Len(ns) THEN ns
    ELSE IF k \in pushed
         THEN RepelPushed(
                  applyRepulsionForce(ns, ns[k].x, ns[k].y, depth, mult),
                  pushed, k + 1, depth, mult)
         ELSE RepelPushed(ns, pushed, k + 1, depth, mult)

\* nodesToUpdate.forEach(node => applyRepulsionForce(node)) of a multi-drag
RECURSIVE RepelSelected(_, _, _)
RepelSelected(ns, sel, k) ==
    IF k > Len(ns) THEN ns
    ELSE IF ns[k].id \in sel
         THEN RepelSelected(
                  applyRepulsionForce(ns, ns[k].x, ns[k].y, 0, 1000),
                  sel, k + 1)
         ELSE RepelSelected(ns, sel, k + 1)

(***************************************************************************)
(* The propagator call by call                                             *)
(***************************************************************************)
\* the ids of the nodes joined to node id by an edge
connectedNodeIds(es, id) ==
    {es[j].target : j \in {j \in DOMAIN es : es[j].source = id}}
       \cup {es[j].source : j \in {j \in DOMAIN es : es[j].target = id}}

\* the positions 1..Len(ns) in array order
Indices(ns) == [k \in 1..Len(ns) |-> k]

\* the nodes a source at (sx, sy) displaces
InRepelRange(ns, sx, sy) ==
    {k \in DOMAIN ns :
        LET d2 == (ns[k].x - sx) * (ns[k].x - sx)
                     + (ns[k].y - sy) * (ns[k].y - sy)
        IN d2 < (repelDistance * SCALE) * (repelDistance * SCALE) /\ d2 > 0}

\* a propagator with no depth test that goes on from every node in range,
\* whether it moved or not
applyRepulsionForceCall_Unbounded(ns, es, src, depth, mult) ==
    LET sx == ns[src].x
        sy == ns[src].y
        after == [k \in DOMAIN ns |-> PushNode(ns[k], sx, sy, mult)]
    IN [ns |-> after,
        pushedNodes |-> SelectSeq(Indices(ns),
                                  LAMBDA k : k \in InRepelRange(ns, sx, sy)),
        moves |-> Cardinality(InRepelRange(ns, sx, sy)),
        ran |-> TRUE]

\* a propagator that leaves the nodes joined to the source by an edge alone
applyRepulsionForceCall_SkipConnected(ns, es, src, depth, mult) ==
    LET sx == ns[src].x
        sy == ns[src].y
        connected == connectedNodeIds(es, ns[src].id)
        after == [k \in DOMAIN ns |->
                    IF ns[k].id \in connected THEN ns[k]
                    ELSE PushNode(ns[k], sx, sy, mult)]
    IN IF depth >= maxRecursionDepth
       THEN [ns |-> ns, pushedNodes |-> <<>>, moves |-> 0, ran |-> FALSE]
       ELSE [ns |-> after,
             pushedNodes |-> SelectSeq(Indices(ns),
                                LAMBDA k : MovedFar(ns[k], after[k])),
             moves |-> Cardinality({k \in InRepelRange(ns, sx, sy) :
                                       ns[k].id \notin connected}),
             ran |-> TRUE]

\* one call of applyRepulsionForce up to its pushedNodes.forEach, for the
\* source ns[src]: the node array after the nodes.forEach, pushedNodes as
\* positions in the array, the number of nodes displaced, and whether the
\* call passed the depth test.  connectedNodeIds is computed from the edges
\* and not read.
applyRepulsionForceCall(ns, es, src, depth, mult) ==
    LET sx == ns[src].x
        sy == ns[src].y
        connected == connectedNodeIds(es, ns[src].id)
        after == [k \in DOMAIN ns |-> PushNode(ns[k], sx, sy, mult)]
    IN IF depth >= maxRecursionDepth
       THEN [ns |-> ns, pushedNodes |-> <<>>, moves |-> 0, ran |-> FALSE]
       ELSE [ns |-> after,
             pushedNodes |-> SelectSeq(Indices(ns),
                                LAMBDA k : MovedFar(ns[k], after[k])),
             moves |-> Cardinality(InRepelRange(ns, sx, sy)),
             ran |-> TRUE]

\* the record after a call at the given depth with result r
RepulsionAfterCall(rec, r, depth, mult) ==
    [rec EXCEPT
       !.stack = IF r.ran
                 THEN <<[pushedNodes |-> r.pushedNodes, depth |-> depth,
                         forceMultiplier |-> mult]>> \o @
                 ELSE @,
       !.calls = @ + 1,
       !.moves = @ + r.moves,
       !.depth = IF r.ran /\ depth > @ THEN depth ELSE @]

\* handleDrag of one unselected node i in manual mode, to (ex, ey), up to the
\* pushedNodes.forEach of applyRepulsionForce(d): d.x = event.x,
\* d.y = event.y and the outermost call, depth 0, forceMultiplier 1
ApplyRepulsionForce(i, ex, ey) ==
    /\ mode = "manual"
    /\ NoDialog /\ NoGesture
    /\ repulsion.stack = <<>>
    /\ moveCount < MaxMoves
    /\ i \in DOMAIN nodes
    /\ nodes[i].id \notin selectedNodeIds
    /\ LET single == [nodes EXCEPT ![i].x = ex, ![i].y = ey]
           r == applyRepulsionForceCall(single, edges, i, 0, 1000)
       IN /\ nodes' = r.ns
          /\ repulsion' =
                RepulsionAfterCall(
                    [RepulsionIdle EXCEPT !.start = single, !.source = i],
                    r, 0, 1000)
    /\ moveCount' = moveCount + 1
    /\ UNCHANGED <<edges, nodeCounter, edgeCounter, mode, selVars,
                   nodeDlgVars, edgeDlgVars, bothDlgVars, isDraggingNode,
                   isDraggingForEdge, dragSourceNode, dragStartPosition,
                   draggedNode, dragOffsets, gesture,
                   justCompletedEdgeCreation, rightVars, simulation,
                   pendingClick>>
    /\ UNCHANGED <<boxVars, editVars, savedFile, autosaveVars, now, uncaughtError,
                   fieldEdits, animationFrameId, frameRequests>>

\* the next iteration of the innermost unfinished pushedNodes.forEach: the
\* call applyRepulsionForce(pushedNode, depth + 1, forceMultiplier * 0.6)
ApplyRepulsionForceRecurse ==
    /\ repulsion.stack # <<>>
    /\ Head(repulsion.stack).pushedNodes # <<>>
    /\ LET top == Head(repulsion.stack)
           depth == top.depth + 1
           mult == (top.forceMultiplier * 6) \div 10
           r == applyRepulsionForceCall(nodes, edges, Head(top.pushedNodes),
                                        depth, mult)
           rest == [repulsion EXCEPT
                      !.stack = <<[top EXCEPT !.pushedNodes = Tail(@)]>>
                                   \o Tail(@)]
       IN /\ nodes' = r.ns
          /\ repulsion' = RepulsionAfterCall(rest, r, depth, mult)
    /\ UNCHANGED <<edges, nodeCounter, edgeCounter, mode, selVars,
                   nodeDlgVars, edgeDlgVars, bothDlgVars, dragVars,
                   justCompletedEdgeCreation, rightVars, simulation,
                   pendingClick>>
    /\ UNCHANGED <<boxVars, editVars, savedFile, autosaveVars, now, uncaughtError,
                   fieldEdits, animationFrameId, frameRequests>>

\* the innermost pushedNodes.forEach is finished and its call returns; the
\* outermost call ends with nodes = [...nodes] and handleDrag with the copy
\* of d put in the array, which hold the positions already written
ApplyRepulsionForceReturn ==
    /\ repulsion.stack # <<>>
    /\ Head(repulsion.stack).pushedNodes = <<>>
    /\ repulsion' = [repulsion EXCEPT !.stack = Tail(@)]
    /\ UNCHANGED <<graphVars, mode, selVars, nodeDlgVars, edgeDlgVars,
                   bothDlgVars, dragVars, justCompletedEdgeCreation,
                   rightVars, simulation, pendingClick>>
    /\ UNCHANGED <<boxVars, editVars, savedFile, autosaveVars, now, uncaughtError,
                   fieldEdits, animationFrameId, frameRequests>>

(***************************************************************************)
(* Node drag gestures (d3.drag on the node elements)                       *)
(*                                                                         *)
(* gesture is the active drag: the id of its subject d, the button, the    *)
(* current event position (the subject's start position plus the pointer   *)
(* displacement), whether the pointer has moved, and whether d is still    *)
(* the object held in the node array (a manual single-node move replaces   *)
(* the array entry by a copy).  Its field press keeps the node array as it *)
(* was at the press.                                                       *)
(***************************************************************************)
\* d is an element of the node array
Live == gesture # Null /\ ~gesture[1].stale /\ IndexOf(nodes, gesture[1].id) # 0

\* the last index holding an id (Map.set overwrites)
LastIndexOf(ns, id) ==
    CHOOSE i \in DOMAIN ns :
        ns[i].id = id /\ \A j \in (i + 1)..Len(ns) : ns[j].id # id

\* the nodes pinned by handleDragStart in force mode
handleDragStartPins(ns, sel, id) ==
    IF id \in sel /\ Cardinality(sel) > 1
    THEN [k \in DOMAIN ns |->
            IF ns[k].id \in sel
            THEN [ns[k] EXCEPT !.fx = Some(ns[k].x), !.fy = Some(ns[k].y)]
            ELSE ns[k]]
    ELSE [k \in DOMAIN ns |->
            IF k = IndexOf(ns, id)
            THEN [ns[k] EXCEPT !.fx = Some(ns[k].x), !.fy = Some(ns[k].y)]
            ELSE ns[k]]

\* button press on the node at index i (button 0 primary, 2 secondary)
HandleDragStart(i, button) ==
    /\ TimersIdle
    /\ NoDialog /\ NoGesture
    /\ i \in DOMAIN nodes
    /\ IndexOf(nodes, nodes[i].id) = i
    /\ button \in {0, 2}
    /\ isDraggingNode' = TRUE
    /\ gesture' = Some([id |-> nodes[i].id, button |-> button,
                        x |-> nodes[i].x, y |-> nodes[i].y,
                        moved |-> FALSE, stale |-> FALSE,
                        press |-> nodes])
    /\ IF button = 2
       THEN /\ justCompletedEdgeCreation' = FALSE
            /\ isDraggingForEdge' = TRUE
            /\ dragSourceNode' = Some(nodes[i].id)
            /\ UNCHANGED <<nodes, dragStartPosition, draggedNode,
                           dragOffsets, simulation>>
       ELSE /\ isDraggingForEdge' = FALSE
            /\ dragStartPosition' = Some([x |-> nodes[i].x, y |-> nodes[i].y])
            /\ draggedNode' = Some(nodes[i].id)
            /\ dragOffsets' =
                  IF nodes[i].id \in selectedNodeIds
                     /\ Cardinality(selectedNodeIds) > 1
                  THEN [id \in selectedNodeIds \cap NodeIds(nodes) |->
                          [dx |-> nodes[LastIndexOf(nodes, id)].x - nodes[i].x,
                           dy |-> nodes[LastIndexOf(nodes, id)].y - nodes[i].y]]
                  ELSE <<>>
            /\ IF mode = "force"
               THEN /\ nodes' = handleDragStartPins(nodes, selectedNodeIds,
                                                    nodes[i].id)
                    /\ simulation' = [simulation EXCEPT !.alphaTarget = 300,
                                                        !.running = TRUE]
               ELSE UNCHANGED <<nodes, simulation>>
            /\ UNCHANGED <<justCompletedEdgeCreation, dragSourceNode>>
    /\ UNCHANGED <<edges, nodeCounter, edgeCounter, mode, selVars,
                   nodeDlgVars, edgeDlgVars, bothDlgVars, rightVars,
                   pendingClick, moveCount>>
    /\ UNCHANGED extVars

\* dragOffsets.get(id) || {dx: 0, dy: 0}
OffsetOf(id) ==
    IF id \in DOMAIN dragOffsets THEN dragOffsets[id] ELSE [dx |-> 0, dy |-> 0]

\* the node array after handleDrag with event position (ex, ey)
handleDragNodes(ex, ey) ==
    LET id == gesture[1].id
        multi == /\ id \in selectedNodeIds
                 /\ Cardinality(selectedNodeIds) > 1
                 /\ DOMAIN dragOffsets # {}
        placed == [k \in DOMAIN nodes |->
                     IF nodes[k].id \in selectedNodeIds
                     THEN [nodes[k] EXCEPT !.x = ex + OffsetOf(nodes[k].id).dx,
                                           !.y = ey + OffsetOf(nodes[k].id).dy]
                     ELSE nodes[k]]
        pinnedAt == [k \in DOMAIN nodes |->
                       IF nodes[k].id \in selectedNodeIds
                       THEN [placed[k] EXCEPT !.fx = Some(placed[k].x),
                                              !.fy = Some(placed[k].y)]
                       ELSE nodes[k]]
        di == IndexOf(nodes, id)
        single == IF Live
                  THEN [nodes EXCEPT ![di].x = ex, ![di].y = ey]
                  ELSE nodes
        repelled == applyRepulsionForce(single, ex, ey, 0, 1000)
        dx == IF Live THEN repelled[di].x ELSE ex
        dy == IF Live THEN repelled[di].y ELSE ey
    IN IF multi
       THEN IF mode = "force" THEN pinnedAt
            ELSE RepelSelected(placed, selectedNodeIds, 1)
       ELSE IF mode = "force"
            THEN IF Live
                 THEN [single EXCEPT ![di].fx = Some(ex), ![di].fy = Some(ey)]
                 ELSE nodes
            ELSE [k \in DOMAIN repelled |->
                    IF repelled[k].id = id
                    THEN [repelled[k] EXCEPT !.x = dx, !.y = dy]
                    ELSE repelled[k]]

\* the entry of the node array is replaced by a copy of d
handleDragCopies ==
    LET id == gesture[1].id
    IN /\ ~(/\ id \in selectedNodeIds
            /\ Cardinality(selectedNodeIds) > 1
            /\ DOMAIN dragOffsets # {})
       /\ mode = "manual"

\* pointer move during a primary-button drag; (ox, oy) is the displacement of
\* the pointer from the press position
HandleDrag(ox, oy) ==
    /\ TimersIdle
    /\ gesture # Null
    /\ gesture[1].button = 0
    /\ ~isDraggingForEdge
    /\ moveCount < MaxMoves
    /\ dragStartPosition # Null
    /\ LET ex == dragStartPosition[1].x + ox
           ey == dragStartPosition[1].y + oy
       IN /\ nodes' = handleDragNodes(ex, ey)
          /\ gesture' = Some([gesture[1] EXCEPT
                                !.x = ex, !.y = ey,
                                !.moved = @ \/ ox # 0 \/ oy # 0,
                                !.stale = @ \/ handleDragCopies])
    /\ moveCount' = moveCount + 1
    /\ UNCHANGED <<edges, nodeCounter, edgeCounter, mode, selVars,
                   nodeDlgVars, edgeDlgVars, bothDlgVars, isDraggingNode,
                   isDraggingForEdge, dragSourceNode, dragStartPosition,
                   draggedNode, dragOffsets, justCompletedEdgeCreation,
                   rightVars, simulation, pendingClick>>
    /\ UNCHANGED extVars

\* the click test with <= in place of <
IsClick_AtThreshold(ex, ey) ==
    /\ dragStartPosition # Null /\ draggedNode # Null
    /\ LET dx == ex - dragStartPosition[1].x
           dy == ey - dragStartPosition[1].y
       IN dx * dx + dy * dy <= (clickThreshold * SCALE) * (clickThreshold * SCALE)

\* the release is a click: displacement below the click threshold
IsClick(ex, ey) ==
    /\ dragStartPosition # Null /\ draggedNode # Null
    /\ LET dx == ex - dragStartPosition[1].x
           dy == ey - dragStartPosition[1].y
       IN dx * dx + dy * dy < (clickThreshold * SCALE) * (clickThreshold * SCALE)

\* the pins released by handleDragEnd in force mode; sel is the selection
\* after the click handling, live tells whether d is in the array
handleDragEndPins(ns, sel, id, live) ==
    IF Cardinality(sel) > 1
    THEN [k \in DOMAIN ns |->
            IF ns[k].id \in sel
            THEN [ns[k] EXCEPT !.fx = Null, !.fy = Null]
            ELSE ns[k]]
    ELSE [k \in DOMAIN ns |->
            IF live /\ k = IndexOf(ns, id)
            THEN [ns[k] EXCEPT !.fx = Null, !.fy = Null]
            ELSE ns[k]]

\* the drop test without the comparison with the source
DroppedOnOtherNode_AnyNode(target) ==
    target # 0

\* targetNode && targetNode.id !== dragSourceNode?.id, for the node at index
\* target under the pointer (0 over empty canvas)
DroppedOnOtherNode(target) ==
    target # 0 /\ nodes[target].id # dragSourceNode[1]

\* button release that ends the drag; target is the index of the node under
\* the pointer (0 over empty canvas) and pos the pointer position, both read
\* by the edge-drag branch only
HandleDragEnd(shiftKey, target, pos) ==
    /\ TimersIdle
    /\ gesture # Null
    /\ target \in {0} \cup DOMAIN nodes
    /\ isDraggingNode' = FALSE
    /\ gesture' = Null
    /\ IF isDraggingForEdge
       THEN /\ justCompletedEdgeCreation' = TRUE
            /\ IF DroppedOnOtherNode(target)
               THEN /\ createEdge(dragSourceNode[1], nodes[target].id)
                    /\ UNCHANGED bothDlgVars
               ELSE /\ openCreateEdgeAndNodeDialog(
                          dragSourceNode,
                          [x |-> gesture[1].x, y |-> gesture[1].y],
                          [x |-> pos[1], y |-> pos[2], targetId |-> Null])
                    /\ UNCHANGED edgeDlgVars
            /\ isDraggingForEdge' = FALSE
            /\ dragSourceNode' = Null
            /\ pendingClick' = Null
            /\ UNCHANGED <<nodes, selVars, dragStartPosition, draggedNode,
                           dragOffsets, simulation>>
       ELSE /\ target = 0
            /\ LET click == IsClick(gesture[1].x, gesture[1].y)
                   sel == IF click THEN selectNode(gesture[1].id, shiftKey)
                          ELSE [n |-> selectedNodeIds, e |-> selectedEdgeIds]
               IN /\ selectedNodeIds' = sel.n
                  /\ selectedEdgeIds' = sel.e
                  /\ nodes' = IF mode = "force"
                              THEN handleDragEndPins(nodes, sel.n,
                                                     gesture[1].id, Live)
                              ELSE nodes
            /\ dragStartPosition' = Null
            /\ draggedNode' = Null
            /\ dragOffsets' = <<>>
            /\ simulation' = IF mode = "force"
                             THEN [simulation EXCEPT
                                     !.alphaTarget = 0,
                                     !.stopTimers = @ + 1]
                             ELSE simulation
            /\ pendingClick' =
                  IF ~gesture[1].moved /\ IndexOf(nodes, gesture[1].id) # 0
                  THEN Some([id |-> gesture[1].id, shiftKey |-> shiftKey])
                  ELSE Null
            /\ UNCHANGED <<edgeDlgVars, bothDlgVars, isDraggingForEdge,
                           dragSourceNode, justCompletedEdgeCreation>>
    /\ UNCHANGED <<edges, nodeCounter, edgeCounter, mode, nodeDlgVars,
                   rightVars, moveCount>>
    /\ UNCHANGED extVars

\* the click event the browser delivers after a press and release with no
\* pointer movement in between (the node's click handler)
NodeClick ==
    /\ pendingClick # Null
    /\ IF ~isDraggingNode
       THEN LET sel == selectNode(pendingClick[1].id, pendingClick[1].shiftKey)
            IN /\ selectedNodeIds' = sel.n
               /\ selectedEdgeIds' = sel.e
       ELSE UNCHANGED selVars
    /\ pendingClick' = Null
    /\ UNCHANGED <<graphVars, mode, nodeDlgVars, edgeDlgVars, bothDlgVars,
                   dragVars, justCompletedEdgeCreation, rightVars,
                   simulation>>
    /\ UNCHANGED extVars

\* the timer set by an edge drag's release clears the flag
JustCompletedTimer ==
    /\ justCompletedEdgeCreation
    /\ pendingClick = Null
    /\ justCompletedEdgeCreation' = FALSE
    /\ UNCHANGED <<graphVars, mode, selVars, nodeDlgVars, edgeDlgVars,
                   bothDlgVars, dragVars, rightVars, simulation,
                   pendingClick>>
    /\ UNCHANGED extVars

\* the timer set by a node drag's release stops the simulation
SimulationStopTimer ==
    /\ simulation.stopTimers > 0
    /\ pendingClick = Null
    /\ simulation' = [simulation EXCEPT !.running = FALSE,
                                        !.stopTimers = @ - 1]
    /\ UNCHANGED <<graphVars, mode, selVars, nodeDlgVars, edgeDlgVars,
                   bothDlgVars, dragVars, justCompletedEdgeCreation,
                   rightVars, pendingClick>>
    /\ UNCHANGED extVars

(***************************************************************************)
(* Force simulation steps and redraws                                      *)
(*                                                                         *)
(* The simulation made by initializeSimulation has a charge force and a    *)
(* collision force and is given the node array only.  Velocities are in    *)
(* the units of positions; the forces are summed over all pairs of nodes   *)
(* (no quadtree approximation), and two nodes at the same point exert no   *)
(* force on each other.                                                    *)
(***************************************************************************)
\* alphaDecay(0.25) and the default alphaMin 0.001, in thousandths
alphaDecay == 250
alphaMin == 1
\* velocityDecay(0.7): a velocity keeps 0.3 of its value each step
velocityKept == 300
\* forceManyBody().strength(-300).distanceMax(80).distanceMin(5)
chargeStrength == 300
chargeDistanceMax == 80
chargeDistanceMin == 5
\* forceCollide().radius(d => d.radius + 2).strength(0.7), for the radius
\* minNodeRadius of a node with a short name
minNodeRadius == 15
collideStrength == 700

\* a velocity component, 0 when absent
Velocity(v) == IF v = Null THEN 0 ELSE v[1]

\* v * num / den rounded towards zero
MulDiv(v, num, den) == Sgn(v) * ((Abs(v) * num) \div den)

\* the velocity change of node i by the charge of node j at strength alpha
ChargeOf(ns, i, j, alpha) ==
    LET x == ns[j].x - ns[i].x
        y == ns[j].y - ns[i].y
        l == x * x + y * y
        max2 == (chargeDistanceMax * SCALE) * (chargeDistanceMax * SCALE)
        min2 == (chargeDistanceMin * SCALE) * (chargeDistanceMin * SCALE)
        w == IF l < min2 THEN chargeDistanceMin * SCALE * ISqrt(l) ELSE l
    IN IF i = j \/ l = 0 \/ l >= max2 THEN [vx |-> 0, vy |-> 0]
       ELSE [vx |-> -MulDiv(x, ((chargeStrength * SCALE * SCALE) \div 1000)
                                  * alpha, w),
             vy |-> -MulDiv(y, ((chargeStrength * SCALE * SCALE) \div 1000)
                                  * alpha, w)]

\* the velocity change of node i by the overlap with node j, from the
\* positions the two nodes are heading to
CollideOf(ns, i, j) ==
    LET x == (ns[i].x + Velocity(ns[i].vx)) - (ns[j].x + Velocity(ns[j].vx))
        y == (ns[i].y + Velocity(ns[i].vy)) - (ns[j].y + Velocity(ns[j].vy))
        l == x * x + y * y
        r == 2 * (minNodeRadius + 2) * SCALE
    IN IF i = j \/ l = 0 \/ l >= r * r THEN [vx |-> 0, vy |-> 0]
       ELSE LET d == ISqrt(l)
            IN IF d = 0 THEN [vx |-> 0, vy |-> 0]
               ELSE [vx |-> MulDiv(x, (r - d) * collideStrength, 2000 * d),
                     vy |-> MulDiv(y, (r - d) * collideStrength, 2000 * d)]

\* the sum of component c of F(j) over j..n
RECURSIVE SumForces(_, _, _, _)
SumForces(F(_), n, j, c) ==
    IF j > n THEN 0 ELSE F(j)[c] + SumForces(F, n, j + 1, c)

\* the node array with the sum of F(i, j) over j added to the velocity of
\* every node i
ApplyForce(F(_, _), ns) ==
    [i \in DOMAIN ns |->
        LET G(j) == F(i, j)
        IN [ns[i] EXCEPT
              !.vx = Some(Velocity(@) + SumForces(G, Len(ns), 1, "vx")),
              !.vy = Some(Velocity(@) + SumForces(G, Len(ns), 1, "vy"))]]

\* the node array after the charge force at strength alpha
Charged(ns, alpha) ==
    LET Charge(i, j) == ChargeOf(ns, i, j, alpha)
    IN ApplyForce(Charge, ns)

\* the node array after the collision force
Collided(ns) ==
    LET Collide(i, j) == CollideOf(ns, i, j)
    IN ApplyForce(Collide, ns)

\* every node moved by its decayed velocity, or put at its pin with no
\* velocity
Moved(ns) ==
    [i \in DOMAIN ns |->
        IF ns[i].fx = Null
        THEN [ns[i] EXCEPT
                !.x = @ + MulDiv(Velocity(ns[i].vx), velocityKept, 1000),
                !.y = @ + MulDiv(Velocity(ns[i].vy), velocityKept, 1000),
                !.vx = Some(MulDiv(Velocity(@), velocityKept, 1000)),
                !.vy = Some(MulDiv(Velocity(@), velocityKept, 1000))]
        ELSE [ns[i] EXCEPT !.x = ns[i].fx[1], !.y = ns[i].fy[1],
                           !.vx = Some(0), !.vy = Some(0)]]

\* the node array after one step of the simulation at strength alpha: the
\* charge force, the collision force, then the move (each stage is computed
\* once, from the result of the stage before).  The edges are not among the
\* simulation's forces.
simulationTickNodes(ns, es, alpha) ==
    CHOOSE moved \in
        {Moved(collided) :
            collided \in {Collided(charged) :
                charged \in {Charged(ns, alpha)}}} : TRUE

\* a tick handler that requests a frame whether or not one is pending
onSimulationTick_Always(id, requests) ==
    [animationFrameId |-> Some(1), frameRequests |-> requests + 1]

\* the pending-redraw marker and the frames requested after onSimulationTick
onSimulationTick(id, requests) ==
    IF id = Null
    THEN [animationFrameId |-> Some(1), frameRequests |-> requests + 1]
    ELSE [animationFrameId |-> id, frameRequests |-> requests]

\* alpha += (alphaTarget - alpha) * alphaDecay
simulationAlpha(sim) ==
    sim.alpha + ((sim.alphaTarget - sim.alpha) * alphaDecay) \div 1000

\* one step of the simulation's timer: the step itself, the tick event, and
\* the stop when alpha has fallen below alphaMin
SimulationTick ==
    /\ simulation.running
    /\ LET alpha == simulationAlpha(simulation)
           redraw == onSimulationTick(animationFrameId, frameRequests)
       IN /\ nodes' = simulationTickNodes(nodes, edges, alpha)
          /\ simulation' = [simulation EXCEPT !.alpha = alpha,
                                              !.running = alpha >= alphaMin]
          /\ animationFrameId' = redraw.animationFrameId
          /\ frameRequests' = redraw.frameRequests
    /\ UNCHANGED <<edges, nodeCounter, edgeCounter, mode, selVars,
                   nodeDlgVars, edgeDlgVars, bothDlgVars, dragVars,
                   justCompletedEdgeCreation, rightVars, pendingClick>>
    /\ UNCHANGED <<boxVars, editVars, savedFile, autosaveVars, now, uncaughtError,
                   fieldEdits, repulsion>>

\* the animation frame requested by onSimulationTick: the marker is cleared
\* and the canvas redrawn
AnimationFrame ==
    /\ frameRequests > 0
    /\ animationFrameId' = Null
    /\ frameRequests' = frameRequests - 1
    /\ UNCHANGED <<graphVars, mode, selVars, nodeDlgVars, edgeDlgVars,
                   bothDlgVars, dragVars, justCompletedEdgeCreation,
                   rightVars, simulation, pendingClick>>
    /\ UNCHANGED <<boxVars, editVars, savedFile, autosaveVars, now, uncaughtError,
                   fieldEdits, repulsion>>

\* press of the secondary button on the node being dragged with the primary
\* button: d3-drag starts a gesture for the press in place of the one in
\* progress, and handleDragStart runs its edge-drag branch
HandleDragStartSecond ==
    /\ gesture # Null
    /\ gesture[1].button = 0
    /\ ~isDraggingForEdge
    /\ NoDialog
    /\ IndexOf(nodes, gesture[1].id) # 0
    /\ LET d == nodes[IndexOf(nodes, gesture[1].id)]
       IN /\ gesture' = Some([id |-> d.id, button |-> 2,
                              x |-> d.x, y |-> d.y,
                              moved |-> FALSE, stale |-> FALSE,
                              press |-> nodes])
          /\ dragSourceNode' = Some(d.id)
    /\ isDraggingNode' = TRUE
    /\ justCompletedEdgeCreation' = FALSE
    /\ isDraggingForEdge' = TRUE
    /\ UNCHANGED <<graphVars, mode, selVars, nodeDlgVars, edgeDlgVars,
                   bothDlgVars, dragStartPosition, draggedNode, dragOffsets,
                   moveCount, rightVars, simulation, pendingClick>>
    /\ UNCHANGED extVars

\* press of the primary button on the node at index i in force mode before
\* the timeout set by the previous release has expired: handleDragStart
\* runs its node-move branch and leaves the timeout pending
HandleDragStartEarly(i) ==
    /\ simulation.stopTimers > 0
    /\ pendingClick = Null
    /\ ~justCompletedEdgeCreation
    /\ NoDialog /\ NoGesture
    /\ mode = "force"
    /\ i \in DOMAIN nodes
    /\ IndexOf(nodes, nodes[i].id) = i
    /\ isDraggingNode' = TRUE
    /\ isDraggingForEdge' = FALSE
    /\ gesture' = Some([id |-> nodes[i].id, button |-> 0,
                        x |-> nodes[i].x, y |-> nodes[i].y,
                        moved |-> FALSE, stale |-> FALSE,
                        press |-> nodes])
    /\ dragStartPosition' = Some([x |-> nodes[i].x, y |-> nodes[i].y])
    /\ draggedNode' = Some(nodes[i].id)
    /\ dragOffsets' =
          IF nodes[i].id \in selectedNodeIds
             /\ Cardinality(selectedNodeIds) > 1
          THEN [id \in selectedNodeIds \cap NodeIds(nodes) |->
                  [dx |-> nodes[LastIndexOf(nodes, id)].x - nodes[i].x,
                   dy |-> nodes[LastIndexOf(nodes, id)].y - nodes[i].y]]
          ELSE <<>>
    /\ nodes' = handleDragStartPins(nodes, selectedNodeIds, nodes[i].id)
    /\ simulation' = [simulation EXCEPT !.alphaTarget = 300,
                                        !.running = TRUE]
    /\ UNCHANGED <<edges, nodeCounter, edgeCounter, mode, selVars,
                   nodeDlgVars, edgeDlgVars, bothDlgVars, dragSourceNode,
                   justCompletedEdgeCreation, rightVars, pendingClick,
                   moveCount>>
    /\ UNCHANGED extVars

(***************************************************************************)
(* Edit dialog                                                             *)
(*                                                                         *)
(* editItem is the edited object, held as its position in the node or edge *)
(* array.  A row of editProperties has the fields of a property: the key   *)
(* text, the type chosen in the select and the text of the value input.    *)
(* The types modelled are string, number and datetime.                     *)
(***************************************************************************)
\* the variables outside the edit dialog, the clock and the save file
coreVars == <<graphVars, mode, selVars, nodeDlgVars, edgeDlgVars,
              bothDlgVars, dragVars, justCompletedEdgeCreation, rightVars,
              simulation, pendingClick>>

PropertyTypes == {"string", "number", "datetime"}

\* typeof v === 'string'
IsString(v) == v.tag \in {"str", "iso", "local"}

\* decimal numerals of the numbers used
Numerals == <<"1", "2", "3", "4", "5", "6", "7", "8", "9">>

\* String(v)
String(v) ==
    CASE v.tag = "num" -> IF v.n \in DOMAIN Numerals THEN Str(Numerals[v.n])
                          ELSE Str("0")
      [] v.tag = "nan" -> Str("NaN")
      [] OTHER -> v

\* Number(v) for the texts used: blank text is 0, a numeral is its number,
\* any other text is NaN
Number(v) ==
    CASE v.tag = "num" -> v
      [] v = Str("") -> Num(0)
      [] v = Str("0") -> Num(0)
      [] v.tag = "str" /\ \E k \in DOMAIN Numerals : Numerals[k] = v.s ->
            Num(CHOOSE k \in DOMAIN Numerals : Numerals[k] = v.s)
      [] OTHER -> NaN

\* the texts the value input of a row accepts from the keyboard: free text
\* in a text input, digits in a number input, a date and time or nothing in
\* a datetime-local input
InputTexts(type) ==
    CASE type = "number" -> {Str("0")}
      [] type = "datetime" -> {Str(""), Local(1)}
      [] OTHER -> {Str(""), Str("x")}

\* the exception of Date.prototype.toISOString on an invalid date
RangeError == [tag |-> "error", s |-> "RangeError", n |-> 0]

\* toDatetimeLocalString(iso): the local date and time to the minute, '' for
\* no text and for a text that is no date
toDatetimeLocalString(iso) ==
    CASE iso.tag = "iso" -> Local(iso.n \div SecondsPerMinute)
      [] iso.tag = "local" -> Local(iso.n)
      [] OTHER -> Str("")

\* fromDatetimeLocalString(local): '' for no text, the ISO string of a date
\* and time, RangeError for a text that is no date.  The text "0" is a date
\* for a lenient Date parser and no date for a strict one.
fromDatetimeLocalString(local, lenient) ==
    CASE local = Str("") -> Str("")
      [] local.tag = "local" -> Iso(local.n * SecondsPerMinute)
      [] local.tag = "iso" -> Iso(local.n)
      [] local = Str("0") /\ lenient -> Iso(0)
      [] OTHER -> RangeError

\* position of the key in a property list, 0 if absent
PropIndex(ps, key) ==
    IF \E i \in DOMAIN ps : ps[i].key = key
    THEN CHOOSE i \in DOMAIN ps : ps[i].key = key
    ELSE 0

\* obj[key] = {type, value}: an existing key keeps its place, a new key goes
\* last
SetProp(ps, p) ==
    IF PropIndex(ps, p.key) # 0
    THEN [ps EXCEPT ![PropIndex(ps, p.key)] = p]
    ELSE Append(ps, p)

\* {...ps, ...qs}
RECURSIVE Spread(_, _)
Spread(ps, qs) ==
    IF qs = <<>> THEN ps
    ELSE Spread(SetProp(ps, Head(qs)), Tail(qs))

\* the rows of the dialog for the properties of the opened object
openEditDialogRows(ps) ==
    [i \in DOMAIN ps |->
        IF ps[i].type = "datetime"
        THEN Property(ps[i].key, ps[i].type,
                      toDatetimeLocalString(IF IsString(ps[i].value)
                                            THEN ps[i].value ELSE Str("")))
        ELSE Property(ps[i].key, ps[i].type, String(ps[i].value))]

openEditDialog(item, type, label, ps) ==
    /\ editLabel' = label
    /\ editType' = Some(type)
    /\ editItem' = Some(item)
    /\ editProperties' = openEditDialogRows(ps)
    /\ showEditDialog' = TRUE

\* double click on a node
NodeDblClick(i) ==
    /\ TimersIdle
    /\ NoDialog /\ NoGesture
    /\ i \in DOMAIN nodes
    /\ openEditDialog(i, "node", nodes[i].label, nodes[i].properties)
    /\ UNCHANGED <<coreVars, boxVars, savedFile, autosaveVars, now, uncaughtError,
                   fieldEdits, layoutVars>>

\* double click on an edge
EdgeDblClick(j) ==
    /\ TimersIdle
    /\ NoDialog /\ NoGesture
    /\ j \in DOMAIN edges
    /\ openEditDialog(j, "edge", edges[j].name, edges[j].properties)
    /\ UNCHANGED <<coreVars, boxVars, savedFile, autosaveVars, now, uncaughtError,
                   fieldEdits, layoutVars>>

closeEditDialog ==
    /\ showEditDialog' = FALSE
    /\ editType' = Null
    /\ editItem' = Null
    /\ editLabel' = ""
    /\ editProperties' = <<>>

\* a change of one field of the dialog
EditField ==
    /\ showEditDialog
    /\ fieldEdits < MaxFieldEdits
    /\ fieldEdits' = fieldEdits + 1
    /\ UNCHANGED <<showEditDialog, editType, editItem>>
    /\ UNCHANGED <<coreVars, boxVars, savedFile, autosaveVars, now, uncaughtError,
                   layoutVars>>

\* typing into the name field
TypeEditLabel(t) ==
    /\ EditField
    /\ editLabel' = t
    /\ UNCHANGED editProperties

\* typing into the key field of row idx
TypePropertyKey(idx, t) ==
    /\ EditField
    /\ idx \in DOMAIN editProperties
    /\ editProperties' = [editProperties EXCEPT ![idx].key = t]
    /\ UNCHANGED editLabel

\* choosing a type in the select of row idx: the value input is replaced by
\* one of the new kind, the bound text stays
SelectPropertyType(idx, type) ==
    /\ EditField
    /\ idx \in DOMAIN editProperties
    /\ type \in PropertyTypes
    /\ type # editProperties[idx].type
    /\ editProperties' = [editProperties EXCEPT ![idx].type = type]
    /\ UNCHANGED editLabel

\* typing into the value input of row idx
TypePropertyValue(idx, v) ==
    /\ EditField
    /\ idx \in DOMAIN editProperties
    /\ v \in InputTexts(editProperties[idx].type)
    /\ editProperties' = [editProperties EXCEPT ![idx].value = v]
    /\ UNCHANGED editLabel

\* the Add Property button: a row with blank key and value; the select
\* binding gives the row the type of its first option
AddPropertyField ==
    /\ EditField
    /\ editProperties' = Append(editProperties,
                                Property("", "string", Str("")))
    /\ UNCHANGED editLabel

\* the remove button of row idx
RemovePropertyField(idx) ==
    /\ EditField
    /\ idx \in DOMAIN editProperties
    /\ editProperties' = [i \in 1..(Len(editProperties) - 1) |->
                              IF i < idx THEN editProperties[i]
                              ELSE editProperties[i + 1]]
    /\ UNCHANGED editLabel

\* the typed value of a row
confirmEditValue(p, lenient) ==
    CASE p.type = "number" -> Number(p.value)
      [] p.type = "datetime" -> fromDatetimeLocalString(p.value, lenient)
      [] OTHER -> p.value

\* newProps: the rows with a non-blank key, in order, as typed properties
RECURSIVE confirmEditNewProps(_, _)
confirmEditNewProps(rows, lenient) ==
    IF rows = <<>> THEN <<>>
    ELSE LET p == rows[Len(rows)]
             rest == confirmEditNewProps(SubSeq(rows, 1, Len(rows) - 1),
                                         lenient)
         IN IF Trim(p.key) = "" THEN rest
            ELSE SetProp(rest, Property(Trim(p.key), p.type,
                                        confirmEditValue(p, lenient)))

\* the properties of the edited object after confirmEdit
confirmEditProperties(old, rows, lenient, time) ==
    Spread(Spread(old, confirmEditNewProps(rows, lenient)),
           <<DateTime("editedAt", time)>>)

\* building newProps throws on a datetime row whose text is no date
confirmEditThrows(rows, lenient) ==
    \E i \in DOMAIN rows :
        /\ Trim(rows[i].key) # ""
        /\ confirmEditValue(rows[i], lenient) = RangeError

\* the OK button of the edit dialog, or Enter in the dialog
ConfirmEdit(lenient) ==
    /\ showEditDialog
    /\ editItem # Null /\ editType # Null
    /\ IF confirmEditThrows(editProperties, lenient)
       THEN /\ uncaughtError' = TRUE
            /\ UNCHANGED <<coreVars, editVars>>
       ELSE /\ IF editType[1] = "node"
               THEN /\ nodes' = [nodes EXCEPT
                        ![editItem[1]].label = editLabel,
                        ![editItem[1]].properties =
                            confirmEditProperties(@, editProperties,
                                                  lenient, now)]
                    /\ simulation' = IF mode = "force"
                                     THEN restartSimulation(simulation)
                                     ELSE simulation
                    /\ UNCHANGED edges
               ELSE /\ edges' = [edges EXCEPT
                        ![editItem[1]].name = editLabel,
                        ![editItem[1]].properties =
                            confirmEditProperties(@, editProperties,
                                                  lenient, now)]
                    /\ UNCHANGED <<nodes, simulation>>
            /\ closeEditDialog
            /\ UNCHANGED <<nodeCounter, edgeCounter, mode, selVars,
                           nodeDlgVars, edgeDlgVars, bothDlgVars, dragVars,
                           justCompletedEdgeCreation, rightVars,
                           pendingClick, uncaughtError>>
    /\ UNCHANGED <<boxVars, savedFile, autosaveVars, now, fieldEdits, layoutVars>>

\* the Cancel button of the edit dialog
CloseEditDialog ==
    /\ showEditDialog
    /\ closeEditDialog
    /\ UNCHANGED <<coreVars, boxVars, savedFile, autosaveVars, now, uncaughtError,
                   fieldEdits, layoutVars>>

\* Escape pressed in the edit dialog: the dialog's handler closes it and the
\* event goes on to the window's handleKeyDown, which returns at once when
\* the focus is in an input and clears the selection when it is on the
\* select, a button or the dialog itself
EditDialogEscape(inInput) ==
    /\ showEditDialog
    /\ closeEditDialog
    /\ IF inInput THEN UNCHANGED selVars ELSE clearSelection
    /\ UNCHANGED <<graphVars, mode, nodeDlgVars, edgeDlgVars, bothDlgVars,
                   dragVars, justCompletedEdgeCreation, rightVars,
                   simulation, pendingClick>>
    /\ UNCHANGED <<boxVars, savedFile, autosaveVars, now, uncaughtError, fieldEdits,
                   layoutVars>>

\* time passes
Tick ==
    /\ now < MaxClock
    /\ now' = now + 1
    /\ UNCHANGED <<coreVars, boxVars, editVars, savedFile, autosaveVars, uncaughtError,
                   fieldEdits, layoutVars>>

(***************************************************************************)
(* Box selection on the canvas background and the zoom transform           *)
(***************************************************************************)
\* transform.applyX, transform.applyY
applyX(t, x) == x * t.k + t.x
applyY(t, y) == y * t.k + t.y

\* the zoom behaviour handles a wheel event or a middle-button drag: the
\* transform of the canvas is replaced
HandleZoom(t) ==
    /\ NoDialog
    /\ t # transform
    /\ transform' = t
    /\ UNCHANGED <<coreVars, isSelecting, selectionStart, editVars,
                   savedFile, autosaveVars, now, uncaughtError, fieldEdits,
                   layoutVars>>

\* primary-button press on the canvas background
HandleCanvasMouseDown(pos, shiftKey) ==
    /\ TimersIdle
    /\ NoDialog /\ NoGesture
    /\ isSelecting' = TRUE
    /\ selectionStart' = pos
    /\ IF ~shiftKey THEN clearSelection ELSE UNCHANGED selVars
    /\ UNCHANGED <<graphVars, mode, nodeDlgVars, edgeDlgVars, bothDlgVars,
                   dragVars, justCompletedEdgeCreation, rightVars,
                   simulation, pendingClick>>
    /\ UNCHANGED <<transform, editVars, savedFile, autosaveVars, now, uncaughtError,
                   fieldEdits, layoutVars>>

\* square of movedDistance
movedDistance2(start, end) ==
    (end[1] - start[1]) * (end[1] - start[1])
        + (end[2] - start[2]) * (end[2] - start[2])

\* the box test on the node coordinates themselves, without the transform
newlySelectedNodeIds_Untransformed(ns, t, start, end) ==
    LET selX == IF start[1] < end[1] THEN start[1] ELSE end[1]
        selY == IF start[2] < end[2] THEN start[2] ELSE end[2]
        selWidth == IF end[1] >= start[1] THEN end[1] - start[1]
                    ELSE start[1] - end[1]
        selHeight == IF end[2] >= start[2] THEN end[2] - start[2]
                     ELSE start[2] - end[2]
    IN {ns[i].id : i \in {j \in DOMAIN ns :
                             /\ ns[j].x >= selX
                             /\ ns[j].x <= selX + selWidth
                             /\ ns[j].y >= selY
                             /\ ns[j].y <= selY + selHeight}}

\* the ids of the nodes whose transformed position is in the selection box
newlySelectedNodeIds(ns, t, start, end) ==
    LET selX == IF start[1] < end[1] THEN start[1] ELSE end[1]
        selY == IF start[2] < end[2] THEN start[2] ELSE end[2]
        selWidth == IF end[1] >= start[1] THEN end[1] - start[1]
                    ELSE start[1] - end[1]
        selHeight == IF end[2] >= start[2] THEN end[2] - start[2]
                     ELSE start[2] - end[2]
    IN {ns[i].id : i \in {j \in DOMAIN ns :
                             /\ applyX(t, ns[j].x) >= selX
                             /\ applyX(t, ns[j].x) <= selX + selWidth
                             /\ applyY(t, ns[j].y) >= selY
                             /\ applyY(t, ns[j].y) <= selY + selHeight}}

\* primary-button release on the canvas while a box selection is active
HandleCanvasMouseUp(pos, shiftKey) ==
    /\ isSelecting
    /\ isSelecting' = FALSE
    /\ IF movedDistance2(selectionStart, pos)
            < (clickThreshold * SCALE) * (clickThreshold * SCALE)
       THEN IF ~shiftKey THEN clearSelection ELSE UNCHANGED selVars
       ELSE LET new == newlySelectedNodeIds(nodes, transform,
                                            selectionStart, pos)
            IN IF ~shiftKey
               THEN /\ selectedNodeIds' = new
                    /\ selectedEdgeIds' = {}
               ELSE /\ selectedNodeIds' = selectedNodeIds \cup new
                    /\ UNCHANGED selectedEdgeIds
    /\ UNCHANGED <<graphVars, mode, nodeDlgVars, edgeDlgVars, bothDlgVars,
                   dragVars, justCompletedEdgeCreation, rightVars,
                   simulation, pendingClick>>
    /\ UNCHANGED <<selectionStart, transform, editVars, savedFile, autosaveVars, now,
                   uncaughtError, fieldEdits, layoutVars>>

\* press of the secondary button on the canvas background while the primary
\* button holds a box selection: handleCanvasRightMouseDown tests the button
\* and the target only
HandleCanvasRightMouseDownSecond(pos) ==
    /\ isSelecting
    /\ ~isRightClickDraggingFromCanvas
    /\ NoDialog
    /\ isRightClickDraggingFromCanvas' = TRUE
    /\ rightClickDragStartPos' = Some(pos)
    /\ UNCHANGED <<graphVars, mode, selVars, nodeDlgVars, edgeDlgVars,
                   bothDlgVars, dragVars, justCompletedEdgeCreation,
                   simulation, pendingClick>>
    /\ UNCHANGED extVars

\* release of the secondary button while both are held: handleCanvasMouseUp
\* ends the box selection without selecting (the button is not the primary
\* one), then handleCanvasRightMouseUp ends the edge drag; target is the
\* index of the node under the pointer, 0 over empty canvas
HandleCanvasMouseUpSecond(target) ==
    /\ isSelecting
    /\ isRightClickDraggingFromCanvas /\ rightClickDragStartPos # Null
    /\ target \in {0} \cup DOMAIN nodes
    /\ isSelecting' = FALSE
    /\ IF target # 0
       THEN openCreateEdgeAndNodeDialog(
                Null,
                [x |-> rightClickDragStartPos[1][1],
                 y |-> rightClickDragStartPos[1][2]],
                [x |-> nodes[target].x, y |-> nodes[target].y,
                 targetId |-> Some(nodes[target].id)])
       ELSE UNCHANGED bothDlgVars
    /\ isRightClickDraggingFromCanvas' = FALSE
    /\ rightClickDragStartPos' = Null
    /\ UNCHANGED <<graphVars, mode, selVars, nodeDlgVars, edgeDlgVars,
                   dragVars, justCompletedEdgeCreation, simulation,
                   pendingClick>>
    /\ UNCHANGED <<selectionStart, transform, editVars, savedFile, autosaveVars, now,
                   uncaughtError, fieldEdits, layoutVars>>

(***************************************************************************)
(* Export                                                                  *)
(*                                                                         *)
(* A saved file is held as the value JSON.parse gives for its text.  A     *)
(* field whose value is undefined is left out by JSON.stringify; in the    *)
(* records here an absent field is Null.                                   *)
(***************************************************************************)
\* the JSON value null
JsonNull == [tag |-> "null", s |-> "", n |-> 0]

\* JSON.parse(JSON.stringify(v)) of a property value: NaN is written as null
JsonValue(v) == IF v.tag = "nan" THEN JsonNull ELSE v

\* JSON.parse(JSON.stringify(ps)) of a properties object
JsonProperties(ps) ==
    [i \in DOMAIN ps |-> [ps[i] EXCEPT !.value = JsonValue(@)]]

\* an export that copies the node records as they are
getGraphDataForExport_KeepPins(ns, es) ==
    [version |-> 1,
     nodes |-> ns,
     edges |-> es,
     nodeCounter |-> nodeCounter,
     edgeCounter |-> edgeCounter,
     mode |-> mode,
     timestamp |-> now]

\* getGraphDataForExport(): the nodes without pin and velocity, the edges
\* with their endpoint ids, the counters, the mode and the time
getGraphDataForExport(ns, es) ==
    [version |-> 1,
     nodes |-> [i \in DOMAIN ns |->
                  [ns[i] EXCEPT !.fx = Null, !.fy = Null,
                                !.vx = Null, !.vy = Null]],
     edges |-> es,
     nodeCounter |-> nodeCounter,
     edgeCounter |-> edgeCounter,
     mode |-> mode,
     timestamp |-> now]

\* JSON.parse(exportGraphAsJSON())
exportGraphAsJSON ==
    LET data == getGraphDataForExport(nodes, edges)
    IN [data EXCEPT
          !.nodes = [i \in DOMAIN @ |->
                        [@[i] EXCEPT !.properties = JsonProperties(@)]],
          !.edges = [j \in DOMAIN @ |->
                        [@[j] EXCEPT !.properties = JsonProperties(@)]]]

\* the Save and Download buttons: the graph is written to a file
SaveToFile ==
    /\ TimersIdle
    /\ NoDialog /\ NoGesture
    /\ savedFile' = Some(exportGraphAsJSON)
    /\ UNCHANGED <<coreVars, boxVars, editVars, autosaveVars, now,
                   uncaughtError, fieldEdits, layoutVars>>

\* nodes or edges have been assigned since the component last ran its
\* reactive statements
Dirty ==
    flushed # <<nodes, edges>>

\* the condition of the autosave statement, with browser and autoSaveEnabled
\* true
AutoSaveCondition ==
    Len(nodes) > 0 \/ Len(edges) > 0

\* the component update after a handler that assigned nodes or edges: the
\* statement `$: if (browser && autoSaveEnabled && (nodes.length > 0 ||
\* edges.length > 0)) autoSaveToLocalStorage()` runs
AutoSaveFlush ==
    /\ Dirty
    /\ flushed' = <<nodes, edges>>
    /\ localStorage' = IF AutoSaveCondition
                       THEN Some(exportGraphAsJSON)
                       ELSE localStorage
    /\ UNCHANGED <<coreVars, boxVars, editVars, savedFile, now,
                   uncaughtError, fieldEdits, layoutVars>>

\* the page is loaded again: every variable of the component starts anew and
\* onMount runs loadFromLocalStorage(), or spawnTestGraph() when nothing is
\* stored, and then restartSimulation()
OnMount ==
    /\ nodes' = IF localStorage # Null THEN localStorage[1].nodes
                ELSE spawnTestGraphNodes
    /\ edges' = IF localStorage # Null THEN localStorage[1].edges
                ELSE spawnTestGraphEdges
    /\ nodeCounter' = IF localStorage # Null THEN localStorage[1].nodeCounter
                      ELSE nNodes
    /\ edgeCounter' = IF localStorage # Null THEN localStorage[1].edgeCounter
                      ELSE nNodes
    /\ mode' = IF localStorage # Null THEN localStorage[1].mode ELSE "force"
    /\ clearSelection
    /\ simulation' = [alpha |-> 300, alphaTarget |-> 0, running |-> TRUE,
                      stopTimers |-> 0]
    /\ showCreateNodeDialog' = FALSE
    /\ pendingNodePosition' = Null
    /\ createNodeName' = ""
    /\ showCreateEdgeDialog' = FALSE
    /\ pendingEdge' = Null
    /\ createEdgeName' = ""
    /\ showCreateEdgeAndNodeDialog' = FALSE
    /\ pendingEdgeSourceNode' = Null
    /\ pendingEdgeStart' = Null
    /\ pendingEdgeEnd' = Null
    /\ newEdgeName' = ""
    /\ newNodeName' = ""
    /\ lastEdgeName' = ""
    /\ isDraggingNode' = FALSE
    /\ isDraggingForEdge' = FALSE
    /\ dragSourceNode' = Null
    /\ dragStartPosition' = Null
    /\ draggedNode' = Null
    /\ dragOffsets' = <<>>
    /\ justCompletedEdgeCreation' = FALSE
    /\ isRightClickDraggingFromCanvas' = FALSE
    /\ rightClickDragStartPos' = Null
    /\ gesture' = Null
    /\ pendingClick' = Null
    /\ moveCount' = 0
    /\ isSelecting' = FALSE
    /\ selectionStart' = <<0, 0>>
    /\ transform' = [k |-> 1, x |-> 0, y |-> 0]
    /\ showEditDialog' = FALSE
    /\ editType' = Null
    /\ editItem' = Null
    /\ editLabel' = ""
    /\ editProperties' = <<>>
    /\ uncaughtError' = FALSE
    /\ fieldEdits' = 0
    /\ animationFrameId' = Null
    /\ frameRequests' = 0
    /\ repulsion' = RepulsionIdle
    /\ flushed' = <<<<>>, <<>>>>
    /\ UNCHANGED <<savedFile, localStorage, now>>

\* the Load button with the file written before
LoadFromFile ==
    /\ savedFile # Null
    /\ LoadGraphData(savedFile[1])

(***************************************************************************)
(* Specifications                                                          *)
(***************************************************************************)
\* pointer positions on the canvas background
CanvasPoints == {<<100 * SCALE, 100 * SCALE>>}

\* pointer displacements of a move event, from the press position
DragOffsets == {<<0, 0>>, <<1 * SCALE, 0>>, <<2 * SCALE, 2 * SCALE>>,
                <<3 * SCALE, 0>>, <<40 * SCALE, 0>>}

\* the editor without pointer moves: creation, deletion, selection, import
Next ==
    \/ \E pos \in CanvasPoints, sh \in BOOLEAN : HandleCanvasClick(pos, sh)
    \/ \E t \in Names : TypeCreateNodeName(t)
    \/ CreateNodeFromDialog
    \/ CloseCreateNodeDialog
    \/ \E t \in Names : TypeCreateEdgeName(t)
    \/ CreateEdgeFromDialog
    \/ CloseCreateEdgeDialog
    \/ \E t \in Names : TypeNewEdgeName(t)
    \/ \E t \in Names : TypeNewNodeName(t)
    \/ ConfirmCreateEdgeAndNode
    \/ CloseCreateEdgeAndNodeDialog
    \/ \E pos \in CanvasPoints : HandleCanvasRightMouseDown(pos)
    \/ \E t \in 0..Len(nodes) : HandleCanvasRightMouseUp(t)
    \/ \E i \in DOMAIN nodes, b \in {0, 2} : HandleDragStart(i, b)
    \/ \E sh \in BOOLEAN, t \in 0..Len(nodes), pos \in CanvasPoints :
          HandleDragEnd(sh, t, pos)
    \/ NodeClick
    \/ \E j \in DOMAIN edges, sh \in BOOLEAN : EdgeClick(j, sh)
    \/ \E i \in DOMAIN nodes : NodeMiddleClick(i)
    \/ \E j \in DOMAIN edges : EdgeMiddleClick(j)
    \/ \E key \in {"Delete", "Escape"} : HandleKeyDown(key)
    \/ ClearGraph
    \/ \E f \in GraphFiles : LoadGraphData(f)
    \/ JustCompletedTimer
    \/ SimulationStopTimer

Spec == Init /\ [][Next]_vars

\* the editor without the Load button
NextCreate ==
    \/ \E pos \in CanvasPoints, sh \in BOOLEAN : HandleCanvasClick(pos, sh)
    \/ \E t \in Names : TypeCreateNodeName(t)
    \/ CreateNodeFromDialog
    \/ CloseCreateNodeDialog
    \/ \E t \in Names : TypeCreateEdgeName(t)
    \/ CreateEdgeFromDialog
    \/ CloseCreateEdgeDialog
    \/ \E t \in Names : TypeNewEdgeName(t)
    \/ \E t \in Names : TypeNewNodeName(t)
    \/ ConfirmCreateEdgeAndNode
    \/ CloseCreateEdgeAndNodeDialog
    \/ \E pos \in CanvasPoints : HandleCanvasRightMouseDown(pos)
    \/ \E t \in 0..Len(nodes) : HandleCanvasRightMouseUp(t)
    \/ \E i \in DOMAIN nodes, b \in {0, 2} : HandleDragStart(i, b)
    \/ \E sh \in BOOLEAN, t \in 0..Len(nodes), pos \in CanvasPoints :
          HandleDragEnd(sh, t, pos)
    \/ NodeClick
    \/ \E j \in DOMAIN edges, sh \in BOOLEAN : EdgeClick(j, sh)
    \/ \E i \in DOMAIN nodes : NodeMiddleClick(i)
    \/ \E j \in DOMAIN edges : EdgeMiddleClick(j)
    \/ \E key \in {"Delete", "Escape"} : HandleKeyDown(key)
    \/ ClearGraph
    \/ JustCompletedTimer
    \/ SimulationStopTimer

SpecCreate == Init /\ [][NextCreate]_vars

\* three nodes made with the create-node dialog on a cleared canvas, the
\* first two within the repulsion distance of each other, and one edge made
\* with the create-edge dialog; either mode
InitDrag ==
    /\ InitExt
    /\ nodes = <<NewNode(1, 100 * SCALE, 100 * SCALE, "a"),
                 NewNode(2, 130 * SCALE, 100 * SCALE, "a"),
                 NewNode(3, 300 * SCALE, 100 * SCALE, "a")>>
    /\ edges = <<NewEdge(0, 1, 2, "a ")>>
    /\ nodeCounter = 3
    /\ edgeCounter = 1
    /\ mode \in {"force", "manual"}
    /\ selectedNodeIds = {}
    /\ selectedEdgeIds = {}
    /\ simulation = [alpha |-> 300, alphaTarget |-> 0, running |-> TRUE,
                     stopTimers |-> 0]
    /\ InitDialogs
    /\ InitGestures

\* primary-button gestures on nodes and edges
NextDrag ==
    \/ \E i \in DOMAIN nodes : HandleDragStart(i, 0)
    \/ \E o \in DragOffsets : HandleDrag(o[1], o[2])
    \/ \E sh \in BOOLEAN, pos \in CanvasPoints : HandleDragEnd(sh, 0, pos)
    \/ NodeClick
    \/ \E j \in DOMAIN edges, sh \in BOOLEAN : EdgeClick(j, sh)
    \/ \E m \in {"force", "manual"} : ModeRadioChange(m)
    \/ SimulationStopTimer

SpecDrag == InitDrag /\ [][NextDrag]_vars

\* two nodes and an edge made with the dialogs at time 0 on a cleared canvas,
\* the first node clicked or not; either mode
InitEdit ==
    /\ InitExt
    /\ nodes = <<NewNode(1, 100 * SCALE, 100 * SCALE, "a"),
                 NewNode(2, 300 * SCALE, 100 * SCALE, "a")>>
    /\ edges = <<NewEdge(0, 1, 2, "a ")>>
    /\ nodeCounter = 2
    /\ edgeCounter = 1
    /\ mode \in {"force", "manual"}
    /\ selectedNodeIds \in {{}, {1}}
    /\ selectedEdgeIds = {}
    /\ simulation = [alpha |-> 300, alphaTarget |-> 0, running |-> TRUE,
                     stopTimers |-> 0]
    /\ InitDialogs
    /\ InitGestures

\* the edit dialog on the first node and on the edge: opening it, changing
\* the name and the last property row, adding and removing rows, confirming,
\* cancelling
NextEdit ==
    \/ NodeDblClick(1)
    \/ \E j \in DOMAIN edges : EdgeDblClick(j)
    \/ \E t \in Names : TypeEditLabel(t)
    \/ \E t \in Names : TypePropertyKey(Len(editProperties), t)
    \/ \E type \in PropertyTypes :
          SelectPropertyType(Len(editProperties), type)
    \/ \E v \in {Str(""), Str("x"), Str("0"), Local(1)} :
          TypePropertyValue(Len(editProperties), v)
    \/ AddPropertyField
    \/ \E idx \in DOMAIN editProperties : RemovePropertyField(idx)
    \/ \E lenient \in BOOLEAN : ConfirmEdit(lenient)
    \/ CloseEditDialog
    \/ \E inInput \in BOOLEAN : EditDialogEscape(inInput)
    \/ Tick

SpecEdit == InitEdit /\ [][NextEdit]_vars

\* the seeded graph: time passes, a node is made with the create-node
\* dialog, and the edit dialog is opened on a node or an edge and confirmed
\* or cancelled with its fields as they are
NextReopen ==
    \/ Tick
    \/ \E pos \in CanvasPoints : HandleCanvasClick(pos, FALSE)
    \/ \E t \in Names : TypeCreateNodeName(t)
    \/ CreateNodeFromDialog
    \/ CloseCreateNodeDialog
    \/ \E i \in DOMAIN nodes : NodeDblClick(i)
    \/ \E j \in DOMAIN edges : EdgeDblClick(j)
    \/ \E lenient \in BOOLEAN : ConfirmEdit(lenient)
    \/ CloseEditDialog

SpecReopen == Init /\ [][NextReopen]_vars

\* the editor with its autosave: after a handler has assigned nodes or edges
\* the component update runs before the next event; nodes are made with the
\* create-node dialog, nodes and edges are deleted with the middle button,
\* the graph is cleared, and the page is loaded again
NextAutosave ==
    \/ AutoSaveFlush
    \/ ~Dirty /\ \E pos \in CanvasPoints : HandleCanvasClick(pos, FALSE)
    \/ ~Dirty /\ \E t \in Names : TypeCreateNodeName(t)
    \/ ~Dirty /\ CreateNodeFromDialog
    \/ ~Dirty /\ CloseCreateNodeDialog
    \/ ~Dirty /\ \E i \in DOMAIN nodes : NodeMiddleClick(i)
    \/ ~Dirty /\ \E j \in DOMAIN edges : EdgeMiddleClick(j)
    \/ ~Dirty /\ ClearGraph
    \/ ~Dirty /\ OnMount

SpecAutosave == Init /\ [][NextAutosave]_vars

\* pointer positions of a box selection
BoxPoints == {<<50 * SCALE, 50 * SCALE>>, <<51 * SCALE, 50 * SCALE>>,
              <<200 * SCALE, 50 * SCALE>>, <<200 * SCALE, 150 * SCALE>>,
              <<350 * SCALE, 150 * SCALE>>}

\* zoom transforms: identity, panned by 100 pixels, scaled by 2
Transforms == {[k |-> 1, x |-> 0, y |-> 0],
               [k |-> 1, x |-> 100 * SCALE, y |-> 0],
               [k |-> 2, x |-> 0, y |-> 0]}

\* box selection, edge clicks and zooming on the three-node graph
NextBox ==
    \/ \E pos \in BoxPoints, sh \in BOOLEAN : HandleCanvasMouseDown(pos, sh)
    \/ \E pos \in BoxPoints, sh \in BOOLEAN : HandleCanvasMouseUp(pos, sh)
    \/ \E t \in Transforms : HandleZoom(t)
    \/ \E j \in DOMAIN edges, sh \in BOOLEAN : EdgeClick(j, sh)

SpecBox == InitDrag /\ [][NextBox]_vars

\* properties added to the first node with the edit dialog
EditedProps == {<<>>,
                <<Property("a", "string", Str("x"))>>,
                <<Property("a", "number", Num(0))>>,
                <<Property("a", "number", NaN)>>}

\* one or two nodes made with the dialogs, joined by an edge when there are
\* two; any of them pinned by a drag, with or without velocities from the
\* simulation; the first node with or without an edited property
InitExport ==
    /\ InitExt
    /\ mode \in {"force", "manual"}
    /\ \E n \in 1..2, pinned \in SUBSET (1..2), moving \in BOOLEAN,
          props \in EditedProps :
          nodes = [i \in 1..n |->
                     [NewNode(i, 100 * i * SCALE, 100 * SCALE, "a") EXCEPT
                        !.fx = IF i \in pinned THEN Some(100 * i * SCALE)
                               ELSE Null,
                        !.fy = IF i \in pinned THEN Some(100 * SCALE)
                               ELSE Null,
                        !.vx = IF moving THEN Some(0) ELSE Null,
                        !.vy = IF moving THEN Some(0) ELSE Null,
                        !.properties = IF i = 1 THEN @ \o props ELSE @]]
    /\ edges = IF Len(nodes) = 2 THEN <<NewEdge(0, 1, 2, "a ")>> ELSE <<>>
    /\ nodeCounter = Len(nodes)
    /\ edgeCounter = Len(edges)
    /\ selectedNodeIds = {}
    /\ selectedEdgeIds = {}
    /\ simulation = [alpha |-> 300, alphaTarget |-> 0, running |-> TRUE,
                     stopTimers |-> 0]
    /\ InitDialogs
    /\ InitGestures

\* saving, clearing, deleting and loading
NextExport ==
    \/ SaveToFile
    \/ LoadFromFile
    \/ ClearGraph
    \/ \E i \in DOMAIN nodes : NodeMiddleClick(i)

SpecExport == InitExport /\ [][NextExport]_vars

\* n nodes made with the create-node dialog on a cleared canvas, in a row
\* with the given spacing
RowOfNodes(n, spacing) ==
    [k \in 1..n |-> NewNode(k, 100 * SCALE + (k - 1) * spacing,
                            100 * SCALE, "a")]

\* the rows: two to six nodes, 3, 30 or 100 pixels apart
MaxRow == 6
Rows ==
    {RowOfNodes(n, sp * SCALE) : n \in {2, 3, MaxRow}, sp \in {3, 30}}
       \cup {RowOfNodes(2, 100 * SCALE)}

\* a row of nodes with or without an edge between the first two, in manual
\* mode with the simulation stopped or in force mode with it running
InitLayout ==
    /\ InitExt
    /\ nodes \in Rows
    /\ edges \in {<<>>, <<NewEdge(0, 1, 2, "a ")>>}
    /\ nodeCounter = Len(nodes)
    /\ edgeCounter = Len(edges)
    /\ mode \in {"force", "manual"}
    /\ selectedNodeIds = {}
    /\ selectedEdgeIds = {}
    /\ simulation = [alpha |-> 300, alphaTarget |-> 0,
                     running |-> (mode = "force"), stopTimers |-> 0]
    /\ InitDialogs
    /\ InitGestures

\* the pointer displacements of a manual move
RepelOffsets == {<<1 * SCALE, 0>>, <<40 * SCALE, 10 * SCALE>>}

\* manual moves of the first and of the last node call by call, simulation
\* steps and redraws
NextLayout ==
    \/ \E i \in {1, Len(nodes)}, o \in RepelOffsets :
          ApplyRepulsionForce(i, nodes[i].x + o[1], nodes[i].y + o[2])
    \/ ApplyRepulsionForceRecurse
    \/ ApplyRepulsionForceReturn
    \/ SimulationTick
    \/ AnimationFrame

SpecLayout == InitLayout /\ [][NextLayout]_vars

\* the rows of at most three nodes, with no edge
InitLayoutLive == InitLayout /\ Len(nodes) <= 3 /\ edges = <<>>

\* a call of the propagator in progress goes on to its end, the simulation's
\* timer fires while it runs, and a requested frame is delivered
SpecLayoutLive ==
    /\ InitLayoutLive
    /\ [][NextLayout]_vars
    /\ WF_vars(ApplyRepulsionForceRecurse)
    /\ WF_vars(ApplyRepulsionForceReturn)
    /\ WF_vars(SimulationTick)
    /\ WF_vars(AnimationFrame)

\* two nodes further apart than the reach of the simulation's forces, in
\* force mode
InitSim == InitEdit /\ mode = "force" /\ selectedNodeIds = {}

\* primary-button drags of the first node in force mode, the secondary
\* button pressed during one, the timers, simulation steps and redraws
NextSim ==
    \/ HandleDragStart(1, 0)
    \/ HandleDragStartSecond
    \/ \E o \in {<<0, 0>>, <<5 * SCALE, 0>>} : HandleDrag(o[1], o[2])
    \/ \E target \in {0, 1}, pos \in CanvasPoints :
          HandleDragEnd(FALSE, target, pos)
    \/ NodeClick
    \/ CloseCreateEdgeAndNodeDialog
    \/ JustCompletedTimer
    \/ SimulationStopTimer
    \/ SimulationTick
    \/ AnimationFrame

SpecSim == InitSim /\ [][NextSim]_vars

\* the simulation's timer fires while it runs, the timeouts set by a release
\* expire, a requested frame is delivered and a click event is dispatched
SpecSimLive ==
    /\ SpecSim
    /\ WF_vars(SimulationTick)
    /\ WF_vars(AnimationFrame)
    /\ WF_vars(SimulationStopTimer)
    /\ WF_vars(JustCompletedTimer)
    /\ WF_vars(NodeClick)

\* the steps of SpecSim, and a press on the first node that comes before
\* the timeout of the previous release
NextQuick ==
    \/ NextSim
    \/ HandleDragStartEarly(1)

SpecQuick == InitSim /\ [][NextQuick]_vars

\* the pointer paths that open a dialog, the Cancel buttons of the dialogs
\* and the timers set by a release
NextDialogs ==
    \/ \E pos \in CanvasPoints, sh \in BOOLEAN : HandleContextMenu(pos, sh)
    \/ \E i \in DOMAIN nodes, b \in {0, 2} : HandleDragStart(i, b)
    \/ HandleDragStartSecond
    \/ \E sh \in BOOLEAN, t \in 0..Len(nodes), pos \in CanvasPoints :
          HandleDragEnd(sh, t, pos)
    \/ NodeClick
    \/ \E pos \in CanvasPoints : HandleCanvasRightMouseDown(pos)
    \/ \E t \in 0..Len(nodes) : HandleCanvasRightMouseUp(t)
    \/ \E i \in DOMAIN nodes : NodeDblClick(i)
    \/ \E j \in DOMAIN edges : EdgeDblClick(j)
    \/ CloseCreateNodeDialog
    \/ CloseCreateEdgeDialog
    \/ CloseCreateEdgeAndNodeDialog
    \/ CloseEditDialog
    \/ JustCompletedTimer
    \/ SimulationStopTimer

SpecDialogs == InitEdit /\ [][NextDialogs]_vars

\* canvas gestures with one button, and the secondary button pressed and
\* released on the canvas while the primary button holds a box selection
NextChord ==
    \/ \E pos \in BoxPoints, sh \in BOOLEAN : HandleCanvasMouseDown(pos, sh)
    \/ \E pos \in BoxPoints, sh \in BOOLEAN :
          ~isRightClickDraggingFromCanvas /\ HandleCanvasMouseUp(pos, sh)
    \/ \E pos \in CanvasPoints : HandleCanvasRightMouseDown(pos)
    \/ \E t \in 0..Len(nodes) : ~isSelecting /\ HandleCanvasRightMouseUp(t)
    \/ \E pos \in CanvasPoints : HandleCanvasRightMouseDownSecond(pos)
    \/ \E t \in 0..Len(nodes) : HandleCanvasMouseUpSecond(t)
    \/ CloseCreateEdgeAndNodeDialog

SpecChord == InitDrag /\ [][NextChord]_vars

\* nodes made with the create-node dialog on a cleared canvas at the given
\* horizontal positions (pixels), on one line
NodesAt(xs) ==
    [k \in DOMAIN xs |-> NewNode(k, xs[k] * SCALE, 100 * SCALE, "a")]

\* two nodes 3, 20 or 30 pixels apart, and three nodes of which the first
\* two overlap by one pixel and the last two lie one pixel apart
Clusters ==
    {NodesAt(<<100, 103>>), NodesAt(<<100, 120>>), NodesAt(<<100, 130>>),
     NodesAt(<<100, 133, 134>>), NodesAt(<<100, 101, 134>>)}

\* a cluster of overlapping nodes in force mode, right after the simulation
\* has been restarted
InitOverlap ==
    /\ InitExt
    /\ nodes \in Clusters
    /\ edges = <<>>
    /\ nodeCounter = Len(nodes)
    /\ edgeCounter = 0
    /\ mode = "force"
    /\ selectedNodeIds = {}
    /\ selectedEdgeIds = {}
    /\ simulation = [alpha |-> 300, alphaTarget |-> 0, running |-> TRUE,
                     stopTimers |-> 0]
    /\ InitDialogs
    /\ InitGestures

\* simulation steps and redraws
NextOverlap ==
    \/ SimulationTick
    \/ AnimationFrame

SpecOverlap == InitOverlap /\ [][NextOverlap]_vars

(***************************************************************************)
(* Properties                                                              *)
(***************************************************************************)
Range(f) == {f[i] : i \in DOMAIN f}

\* C1: in every reachable state every edge's source and target are ids of
\* nodes of the graph
C1_EdgeEndpointsExist ==
    \A j \in DOMAIN edges :
        /\ edges[j].source \in NodeIds(nodes)
        /\ edges[j].target \in NodeIds(nodes)

\* C2: deleting node n (middle click) removes n and exactly the edges whose
\* source or target is n; every other node and edge stays as it was, in order
C2_DeleteNodeExact ==
    [][\A i \in DOMAIN nodes :
          NodeMiddleClick(i) =>
             LET n == nodes[i].id
             IN /\ Range(nodes') = {m \in Range(nodes) : m.id # n}
                /\ Range(edges') =
                      {e \in Range(edges) : e.source # n /\ e.target # n}
                /\ Len(nodes') =
                      Cardinality({k \in DOMAIN nodes : nodes[k].id # n})
                /\ Len(edges') =
                      Cardinality({k \in DOMAIN edges :
                                     /\ edges[k].source # n
                                     /\ edges[k].target # n})
                /\ \A k \in DOMAIN edges' :
                      edges'[k].source # n /\ edges'[k].target # n]_vars

\* C2 witness: node 1 was deleted by a middle click while selected; its edge
\* from the centre is gone and the edge from the centre to node 2 is kept
C2_Witness ==
    /\ 1 \in selectedNodeIds
    /\ NodeIds(nodes) = {0, 2}
    /\ \E j \in DOMAIN edges : edges[j].source = 0 /\ edges[j].target = 2
    /\ \A j \in DOMAIN edges : edges[j].source # 1 /\ edges[j].target # 1

\* the pending create-edge request names a node that is not in the graph
PendingEdgeDangling ==
    /\ pendingEdge # Null
    /\ \/ pendingEdge[1].source \notin NodeIds(nodes)
       \/ pendingEdge[1].target \notin NodeIds(nodes)

\* the pending create-node-and-edge request names a node that is not in the
\* graph
PendingBothDangling ==
    \/ /\ pendingEdgeEnd # Null
       /\ pendingEdgeEnd[1].targetId # Null
       /\ pendingEdgeEnd[1].targetId[1] \notin NodeIds(nodes)
    \/ /\ pendingEdgeEnd # Null
       /\ pendingEdgeEnd[1].targetId = Null
       /\ pendingEdgeSourceNode # Null
       /\ pendingEdgeSourceNode[1] \notin NodeIds(nodes)

\* C3: closing a create-edge or create-node-and-edge dialog whose request
\* names a missing node adds no edge and no node and leaves both counters
C3_InvalidReferenceRejected ==
    [][(\/ /\ showCreateEdgeDialog /\ ~showCreateEdgeDialog'
           /\ PendingEdgeDangling
        \/ /\ showCreateEdgeAndNodeDialog /\ ~showCreateEdgeAndNodeDialog'
           /\ PendingBothDangling)
       => UNCHANGED <<nodes, edges, nodeCounter, edgeCounter>>]_vars

\* C4: in every reachable state no two edges share an id
C4_EdgeIdsUnique ==
    \A i, j \in DOMAIN edges : i # j => edges[i].id # edges[j].id

\* C5: the node id counter never decreases, so that no node id is given out
\* twice
C5_NodeCounterMonotonic ==
    [][nodeCounter' >= nodeCounter]_vars

(***************************************************************************)
(* Properties of the primary-button node gesture                           *)
(***************************************************************************)
\* a step that releases a primary-button node drag
PrimaryRelease ==
    /\ gesture # Null /\ gesture' = Null
    /\ gesture[1].button = 0

\* the squared distance, in model units, between the pointer and the place
\* of the press
Displacement2 ==
    LET dx == gesture[1].x - gesture[1].press[IndexOf(gesture[1].press,
                                                       gesture[1].id)].x
        dy == gesture[1].y - gesture[1].press[IndexOf(gesture[1].press,
                                                       gesture[1].id)].y
    IN dx * dx + dy * dy

\* the pointer is less than the click threshold away from the press
BelowThreshold ==
    Displacement2 < (clickThreshold * SCALE) * (clickThreshold * SCALE)

\* C6: a primary-button gesture on a node released below the click threshold
\* leaves every node where it was at the press
C6_ClickMovesNothing ==
    [][(PrimaryRelease /\ BelowThreshold) =>
          /\ Len(nodes') = Len(gesture[1].press)
          /\ \A k \in DOMAIN nodes' :
                /\ nodes'[k].x = gesture[1].press[k].x
                /\ nodes'[k].y = gesture[1].press[k].y]_vars

\* C7: no step of a primary-button node gesture that is released at or above
\* the click threshold changes the selection: not the press, not a move, not
\* the release, and the release leaves no click to be delivered
C7_DragKeepsSelection ==
    [][/\ (gesture = Null /\ gesture' # Null /\ gesture'[1].button = 0)
             => UNCHANGED selVars
       /\ (gesture # Null /\ gesture' # Null /\ gesture[1].button = 0)
             => UNCHANGED selVars
       /\ (PrimaryRelease /\ ~BelowThreshold)
             => (UNCHANGED selVars /\ pendingClick' = Null)]_vars

\* C7 witness: in force mode node 1, selected together with the edge, has
\* been dragged 40 pixels to the right and released
C7_Witness ==
    /\ mode = "force"
    /\ gesture = Null /\ pendingClick = Null
    /\ nodes[1].x = 140 * SCALE
    /\ selectedNodeIds = {1}
    /\ selectedEdgeIds = {0}

\* a multi-drag: the grabbed node is one of several selected nodes
MultiDrag ==
    /\ gesture # Null
    /\ gesture[1].button = 0
    /\ gesture[1].id \in selectedNodeIds
    /\ Cardinality(selectedNodeIds) > 1

\* C8: after every move of a multi-drag each selected node is at its position
\* of the press plus the pointer displacement, and the release moves nothing
C8_MultiDragRigid ==
    [][/\ (MultiDrag /\ gesture' # Null /\ moveCount' = moveCount + 1) =>
             \A k \in DOMAIN nodes' :
                nodes'[k].id \in selectedNodeIds =>
                   /\ nodes'[k].x = gesture[1].press[k].x
                                    + (gesture'[1].x - dragStartPosition[1].x)
                   /\ nodes'[k].y = gesture[1].press[k].y
                                    + (gesture'[1].y - dragStartPosition[1].y)
       /\ (MultiDrag /\ gesture' = Null) =>
             \A k \in DOMAIN nodes' :
                nodes'[k].x = nodes[k].x /\ nodes'[k].y = nodes[k].y]_vars

\* C9: in force mode no node is pinned unless a drag is in progress
C9_NoPinWithoutDrag ==
    (mode = "force" /\ gesture = Null) =>
        \A k \in DOMAIN nodes : nodes[k].fx = Null /\ nodes[k].fy = Null

\* C10: the release of a primary-button click on a node sets the selection
\* to that node alone (no modifier) or toggles that node (modifier), and the
\* click event that follows changes nothing more
C10_ClickSelectsOnce ==
    [][/\ (PrimaryRelease /\ BelowThreshold) =>
             \E sh \in BOOLEAN :
                IF sh
                THEN /\ selectedEdgeIds' = selectedEdgeIds
                     /\ selectedNodeIds' =
                           IF gesture[1].id \in selectedNodeIds
                           THEN selectedNodeIds \ {gesture[1].id}
                           ELSE selectedNodeIds \cup {gesture[1].id}
                ELSE /\ selectedEdgeIds' = {}
                     /\ selectedNodeIds' = {gesture[1].id}
       /\ (pendingClick # Null /\ pendingClick' = Null) =>
             UNCHANGED selVars]_vars

\* C11: Delete or Backspace with selected nodes N and selected edges E leaves
\* exactly the nodes not in N and exactly the edges neither in E nor incident
\* to a node of N, in their order, and empties both selections; with nothing
\* selected the nodes and edges stay as they were
C11_DeleteSelection ==
    [][HandleKeyDown("Delete") =>
          LET keptN == {k \in DOMAIN nodes : nodes[k].id \notin selectedNodeIds}
              keptE == {k \in DOMAIN edges :
                          /\ edges[k].id \notin selectedEdgeIds
                          /\ edges[k].source \notin selectedNodeIds
                          /\ edges[k].target \notin selectedNodeIds}
          IN /\ Range(nodes') = {nodes[k] : k \in keptN}
             /\ Len(nodes') = Cardinality(keptN)
             /\ Range(edges') = {edges[k] : k \in keptE}
             /\ Len(edges') = Cardinality(keptE)
             /\ selectedNodeIds' = {} /\ selectedEdgeIds' = {}
             /\ (selectedNodeIds = {} /\ selectedEdgeIds = {})
                   => UNCHANGED <<nodes, edges>>]_vars

\* C11 witness: while the dialog for an edge into node 1 is open, Delete has
\* removed the selected node 1 with its edge and the selected edge to node 2
C11_Witness ==
    /\ showCreateEdgeAndNodeDialog
    /\ pendingEdgeEnd # Null /\ pendingEdgeEnd[1].targetId = Some(1)
    /\ NodeIds(nodes) = {0, 2}
    /\ edges = <<>>
    /\ edgeCounter = 2
    /\ selectedNodeIds = {} /\ selectedEdgeIds = {}

\* both names of the combined dialog are non-blank
BothNamed == Trim(newEdgeName) # "" /\ Trim(newNodeName) # ""

\* the existing node the pending combined request refers to
PendingExisting ==
    IF pendingEdgeEnd[1].targetId # Null
    THEN pendingEdgeEnd[1].targetId[1]
    ELSE pendingEdgeSourceNode[1]

\* C12: confirming the combined dialog appends exactly one node and exactly
\* one edge joining that node and the existing node of the request, or, with
\* a blank name, nothing; cancelling adds nothing; and no step taken while
\* the dialog is open adds a node without an edge or an edge without a node
C12_NodeAndEdgeTogether ==
    [][/\ (ConfirmCreateEdgeAndNode /\ BothNamed) =>
             /\ Len(nodes') = Len(nodes) + 1
             /\ SubSeq(nodes', 1, Len(nodes)) = nodes
             /\ Len(edges') = Len(edges) + 1
             /\ SubSeq(edges', 1, Len(edges)) = edges
             /\ {edges'[Len(edges')].source, edges'[Len(edges')].target}
                   = {nodes'[Len(nodes')].id, PendingExisting}
       /\ (ConfirmCreateEdgeAndNode /\ ~BothNamed) =>
             UNCHANGED <<nodes, edges>>
       /\ CloseCreateEdgeAndNodeDialog => UNCHANGED <<nodes, edges>>
       /\ showCreateEdgeAndNodeDialog =>
             (Len(nodes') > Len(nodes) <=> Len(edges') > Len(edges))]_vars

\* C12 witness: the combined dialog was confirmed: node 2 and an edge between
\* node 2 and an older node exist and the dialog is closed
C12_Witness ==
    /\ ~showCreateEdgeAndNodeDialog
    /\ lastEdgeName = "a"
    /\ 2 \in NodeIds(nodes)
    /\ \E j \in DOMAIN edges :
          {edges[j].source, edges[j].target} \in {{2, 0}, {2, 1}}

\* C13: a secondary-button drag from node S released over another node T opens
\* the create-edge request for (S, T) and leaves the graph as it is, and so
\* does typing the name; confirming with a non-blank name appends exactly one
\* edge from S to T, confirming with a blank name appends none, and both
\* close the request
C13_EdgeRequest ==
    [][/\ \A sh \in BOOLEAN, t \in DOMAIN nodes, pos \in CanvasPoints :
             (/\ HandleDragEnd(sh, t, pos)
              /\ gesture[1].button = 2
              /\ nodes[t].id # gesture[1].id) =>
                /\ showCreateEdgeDialog'
                /\ pendingEdge' = Some([source |-> gesture[1].id,
                                        target |-> nodes[t].id])
                /\ UNCHANGED graphVars
       /\ (showCreateEdgeDialog /\ showCreateEdgeDialog'
              /\ createEdgeName' # createEdgeName) => UNCHANGED graphVars
       /\ CreateEdgeFromDialog =>
             /\ ~showCreateEdgeDialog' /\ pendingEdge' = Null
             /\ nodes' = nodes
             /\ IF Trim(createEdgeName) # ""
                THEN /\ Len(edges') = Len(edges) + 1
                     /\ SubSeq(edges', 1, Len(edges)) = edges
                     /\ edges'[Len(edges')].source = pendingEdge[1].source
                     /\ edges'[Len(edges')].target = pendingEdge[1].target
                ELSE edges' = edges]_vars

\* C13 witness: the create-edge dialog was confirmed with the name typed into
\* it: a second edge from the centre to node 1 exists and the dialog is closed
C13_Witness ==
    /\ ~showCreateEdgeDialog /\ pendingEdge = Null
    /\ Len(edges) = 2
    /\ edges[2].name = "a " /\ edges[2].source = 0 /\ edges[2].target = 1

\* C14: the drag from a node onto the canvas makes the existing node the
\* source and the new node, placed where the button was released, the target;
\* the drag from the canvas onto a node makes the new node, placed where the
\* button was pressed, the source and the existing node the target
C14_EndpointConventions ==
    [][/\ \A sh \in BOOLEAN, pos \in CanvasPoints :
             (HandleDragEnd(sh, 0, pos) /\ gesture[1].button = 2) =>
                /\ showCreateEdgeAndNodeDialog'
                /\ pendingEdgeSourceNode' = Some(gesture[1].id)
                /\ pendingEdgeEnd'[1].x = pos[1]
                /\ pendingEdgeEnd'[1].y = pos[2]
                /\ pendingEdgeEnd'[1].targetId = Null
       /\ \A t \in DOMAIN nodes :
             HandleCanvasRightMouseUp(t) =>
                /\ showCreateEdgeAndNodeDialog'
                /\ pendingEdgeSourceNode' = Null
                /\ pendingEdgeStart'[1].x = rightClickDragStartPos[1][1]
                /\ pendingEdgeStart'[1].y = rightClickDragStartPos[1][2]
                /\ pendingEdgeEnd'[1].targetId = Some(nodes[t].id)
       /\ (ConfirmCreateEdgeAndNode /\ BothNamed) =>
             LET n == nodes'[Len(nodes')]
                 e == edges'[Len(edges')]
             IN IF pendingEdgeEnd[1].targetId = Null
                THEN /\ e.source = pendingEdgeSourceNode[1]
                     /\ e.target = n.id
                     /\ n.x = pendingEdgeEnd[1].x
                     /\ n.y = pendingEdgeEnd[1].y
                ELSE /\ e.source = n.id
                     /\ e.target = pendingEdgeEnd[1].targetId[1]
                     /\ n.x = pendingEdgeStart[1].x
                     /\ n.y = pendingEdgeStart[1].y]_vars

\* C14 witness: after a drag from the canvas onto node 1 was confirmed, node 2
\* stands where the button was pressed and an edge runs from node 2 to node 1
C14_Witness ==
    /\ ~showCreateEdgeAndNodeDialog
    /\ \E k \in DOMAIN nodes :
          /\ nodes[k].id = 2
          /\ <<nodes[k].x, nodes[k].y>> = <<100 * SCALE, 100 * SCALE>>
    /\ \E j \in DOMAIN edges : edges[j].source = 2 /\ edges[j].target = 1


(***************************************************************************)
(* Properties of import and export                                         *)
(***************************************************************************)
\* the edges of es whose two endpoints are nodes of ns
ValidEdges(es, ns) ==
    SelectSeq(es, LAMBDA e : /\ e.source \in NodeIds(ns)
                             /\ e.target \in NodeIds(ns))

\* C17: importing a graph file whose edge list has edges with a missing
\* endpoint drops exactly those edges and keeps every node and every other
\* edge of the file
C17_ImportDropsDangling ==
    [][\A f \in GraphFiles :
          LoadGraphData(f) => /\ nodes' = f.nodes
                              /\ edges' = ValidEdges(f.edges, f.nodes)]_vars

(***************************************************************************)
(* Properties of the dialogs                                               *)
(***************************************************************************)
\* a dialog is cancelled: its Cancel button, or Escape in it
CancelDialog ==
    \/ CloseCreateNodeDialog
    \/ CloseCreateEdgeDialog
    \/ CloseCreateEdgeAndNodeDialog
    \/ CloseEditDialog
    \/ \E inInput \in BOOLEAN : EditDialogEscape(inInput)

\* C15: cancelling a dialog leaves the nodes, the edges (with labels,
\* properties and positions), both id counters and the selection unchanged,
\* closes the dialog and clears its pending request
C15_CancelChangesNothing ==
    [][CancelDialog =>
          /\ UNCHANGED <<nodes, edges, nodeCounter, edgeCounter>>
          /\ UNCHANGED <<selectedNodeIds, selectedEdgeIds>>
          /\ ~showCreateNodeDialog' /\ pendingNodePosition' = Null
          /\ ~showCreateEdgeDialog' /\ pendingEdge' = Null
          /\ ~showCreateEdgeAndNodeDialog'
          /\ pendingEdgeSourceNode' = Null
          /\ ~showEditDialog' /\ editItem' = Null]_vars

\* the properties of the object open in the edit dialog
EditedProperties ==
    IF editType[1] = "node" THEN nodes[editItem[1]].properties
    ELSE edges[editItem[1]].properties

\* the properties of that object after the step
EditedPropertiesAfter ==
    IF editType[1] = "node" THEN nodes'[editItem[1]].properties
    ELSE edges'[editItem[1]].properties

\* the keys entered in the dialog
EnteredKeys ==
    {Trim(editProperties[i].key) : i \in DOMAIN editProperties} \ {""}

\* row i is the last row of the dialog with its key
LastOfKey(i) ==
    \A j \in DOMAIN editProperties :
        j > i => Trim(editProperties[j].key) # Trim(editProperties[i].key)

\* C20: confirming an edit keeps every property the dialog's rows do not
\* overwrite, sets each key entered in the dialog to the typed value of its
\* row, and sets editedAt to the time of the confirm
C20_ConfirmEditMerges ==
    [][\A lenient \in BOOLEAN :
          ConfirmEdit(lenient) =>
             LET old == EditedProperties
                 new == EditedPropertiesAfter
             IN /\ \A i \in DOMAIN old :
                      old[i].key \notin EnteredKeys \cup {"editedAt"}
                         => /\ PropIndex(new, old[i].key) # 0
                            /\ new[PropIndex(new, old[i].key)] = old[i]
                /\ \A i \in DOMAIN editProperties :
                      LET k == Trim(editProperties[i].key)
                      IN (k \notin {"", "editedAt"} /\ LastOfKey(i))
                            => /\ PropIndex(new, k) # 0
                               /\ new[PropIndex(new, k)] =
                                     Property(k, editProperties[i].type,
                                        confirmEditValue(editProperties[i],
                                                         lenient))
                /\ PropIndex(new, "editedAt") # 0
                /\ new[PropIndex(new, "editedAt")] =
                      DateTime("editedAt", now)]_vars

(***************************************************************************)
(* Properties of the box selection                                         *)
(***************************************************************************)
\* the nodes whose position on the screen is in the rectangle spanned by
\* the points a and b
InRectangle(a, b) ==
    {n \in Range(nodes) :
        LET sx == n.x * transform.k + transform.x
            sy == n.y * transform.k + transform.y
        IN /\ (a[1] <= sx /\ sx <= b[1]) \/ (b[1] <= sx /\ sx <= a[1])
           /\ (a[2] <= sy /\ sy <= b[2]) \/ (b[2] <= sy /\ sy <= a[2])}

\* the release point is at least the click threshold away from the press
BoxDrag(pos) ==
    movedDistance2(selectionStart, pos) >= (3 * SCALE) * (3 * SCALE)

\* C16: a primary-button release at or beyond the click threshold from the
\* press on the empty canvas makes the selected nodes exactly the nodes whose
\* screen position is in the rectangle (no modifier), or the previous
\* selection together with them (modifier), and moves no node
C16_BoxSelection ==
    [][\A pos \in BoxPoints, sh \in BOOLEAN :
          (HandleCanvasMouseUp(pos, sh) /\ BoxDrag(pos)) =>
             /\ selectedNodeIds' =
                   (IF sh THEN selectedNodeIds ELSE {})
                      \cup {n.id : n \in InRectangle(selectionStart, pos)}
             /\ nodes' = nodes]_vars

\* a modifier box selection has added a node on the edge of the rectangle to
\* a non-empty selection while the canvas is panned
C16_Witness ==
    /\ ~isSelecting
    /\ transform = [k |-> 1, x |-> 100 * SCALE, y |-> 0]
    /\ selectionStart = <<50 * SCALE, 50 * SCALE>>
    /\ selectedNodeIds = {1, 3}

(***************************************************************************)
(* Properties of the export                                                *)
(***************************************************************************)
\* C18: importing the export of the current graph gives nodes and edges
\* with the same ids, labels, endpoints and properties, and the same
\* counters and mode
C18_ExportImportRoundTrip ==
    [][LoadGraphData(exportGraphAsJSON) =>
          /\ Len(nodes') = Len(nodes)
          /\ \A i \in DOMAIN nodes :
                /\ nodes'[i].id = nodes[i].id
                /\ nodes'[i].label = nodes[i].label
                /\ nodes'[i].properties = nodes[i].properties
          /\ Len(edges') = Len(edges)
          /\ \A j \in DOMAIN edges :
                /\ edges'[j].id = edges[j].id
                /\ edges'[j].name = edges[j].name
                /\ edges'[j].source = edges[j].source
                /\ edges'[j].target = edges[j].target
                /\ edges'[j].properties = edges[j].properties
          /\ nodeCounter' = nodeCounter
          /\ edgeCounter' = edgeCounter
          /\ mode' = mode]_vars

\* C19: a node record of an exported file has no pin (fx, fy) and no
\* velocity (vx, vy), and the endpoints of its edges are node ids
C19_ExportPlainRecords ==
    [][SaveToFile =>
          LET file == savedFile'[1]
          IN /\ Len(file.nodes) = Len(nodes)
             /\ \A i \in DOMAIN file.nodes :
                   /\ file.nodes[i].fx = Null /\ file.nodes[i].fy = Null
                   /\ file.nodes[i].vx = Null /\ file.nodes[i].vy = Null
             /\ \A j \in DOMAIN file.edges :
                   /\ file.edges[j].source \in Nat
                   /\ file.edges[j].target \in Nat]_vars

\* a file has been written while both nodes are pinned and carry velocities
C19_Witness ==
    /\ savedFile # Null
    /\ Len(nodes) = 2 /\ Len(edges) = 1
    /\ \A i \in DOMAIN nodes : nodes[i].fx # Null /\ nodes[i].vx # Null
    /\ Len(savedFile[1].nodes) = 2 /\ Len(savedFile[1].edges) = 1

(***************************************************************************)
(* Properties of the force simulation                                      *)
(***************************************************************************)
\* C23: while the mode is manual the force simulation is not ticking
C23_ManualNeverTicks ==
    mode = "manual" => ~simulation.running

\* a node or an edge is added or removed by a dialog, a middle click or the
\* Delete key
StructuralChange ==
    /\ \/ CreateNodeFromDialog
       \/ CreateEdgeFromDialog
       \/ ConfirmCreateEdgeAndNode
       \/ \E i \in DOMAIN nodes : NodeMiddleClick(i)
       \/ \E j \in DOMAIN edges : EdgeMiddleClick(j)
       \/ HandleKeyDown("Delete")
    /\ <<nodes, edges>>' # <<nodes, edges>>

\* C24: in force mode every structural change of the graph sets the alpha of
\* the simulation to 0.3 and makes it tick
C24_StructuralChangeRestarts ==
    [][(mode = "force" /\ StructuralChange) =>
          /\ simulation'.alpha = 300
          /\ simulation'.running]_vars

(***************************************************************************)
(* Properties of the local repulsion propagator                            *)
(***************************************************************************)
\* C21: an invocation of the local repulsion propagator comes to its end,
\* and no call of it runs at the depth cap or deeper
C21_PropagatorTerminates ==
    /\ [](/\ repulsion.depth < maxRecursionDepth
          /\ Len(repulsion.stack) <= maxRecursionDepth)
    /\ (repulsion.stack # <<>>) ~> (repulsion.stack = <<>>)

\* an invocation has ended in which a call at depth 2 ran
C21_Witness ==
    /\ repulsion.stack = <<>>
    /\ repulsion.calls > 2
    /\ repulsion.depth >= 2

\* C22: one move of one node makes at most depthCap * n calls of the
\* propagator and at most depthCap * n node displacements, n the number of
\* nodes
C22_CallsAtMostCapTimesNodes ==
    /\ repulsion.calls <= maxRecursionDepth * Len(nodes)
    /\ repulsion.moves <= maxRecursionDepth * Len(nodes)

(***************************************************************************)
(* Properties of the simulation steps                                      *)
(***************************************************************************)
\* C25: in force mode, once no drag is in progress and no input follows,
\* the simulation stops ticking after finitely many ticks
C25_TickingStops ==
    <>[](mode = "force" /\ gesture = Null) => <>[](~simulation.running)

\* C26: at most one redraw is pending at any time: a tick that arrives while
\* a redraw is scheduled schedules none, a tick with none pending schedules
\* exactly one, and the marker is cleared when the redraw runs
C26_OneRedrawPending ==
    [][/\ frameRequests' <= 1
       /\ animationFrameId' # Null <=> frameRequests' = 1
       /\ SimulationTick /\ animationFrameId # Null =>
             frameRequests' = frameRequests
       /\ SimulationTick /\ animationFrameId = Null =>
             frameRequests' = frameRequests + 1
       /\ AnimationFrame => animationFrameId' = Null]_vars

\* a redraw is pending after at least two ticks
C26_Witness ==
    /\ animationFrameId # Null
    /\ frameRequests = 1
    /\ simulation.alpha < 225

\* the fields of the nodes that are not spatial
NonSpatial(ns) ==
    [k \in DOMAIN ns |->
        [id |-> ns[k].id, label |-> ns[k].label,
         properties |-> ns[k].properties]]

\* a step of the simulation or of an invocation of the propagator
LayoutStep ==
    \/ SimulationTick
    \/ \E i \in DOMAIN nodes, o \in RepelOffsets :
          ApplyRepulsionForce(i, nodes[i].x + o[1], nodes[i].y + o[2])
    \/ ApplyRepulsionForceRecurse
    \/ ApplyRepulsionForceReturn

ReleaseInPlace ==
    /\ gesture # Null
    /\ ~gesture[1].moved
    /\ \E sh \in BOOLEAN, pos \in CanvasPoints :
          HandleDragEnd(sh,
                        IF gesture[1].button = 2
                        THEN IndexOf(nodes, gesture[1].id) ELSE 0,
                        pos)

\* C29: the click threshold decides click versus drag on every pointer
\* path: a press and release in place, a displacement below the threshold,
\* is a click with either button and starts no edge creation
C29_SameThresholdEveryPath ==
    [][ReleaseInPlace =>
          /\ ~showCreateEdgeAndNodeDialog'
          /\ edges' = edges]_vars

\* the number of gestures in progress: box selection, node move, edge drag
\* from a node, edge drag from the canvas
ActiveGestures ==
    (IF isSelecting THEN 1 ELSE 0)
       + (IF isDraggingNode /\ ~isDraggingForEdge THEN 1 ELSE 0)
       + (IF isDraggingForEdge THEN 1 ELSE 0)
       + (IF isRightClickDraggingFromCanvas THEN 1 ELSE 0)

\* C30: at most one of the four gestures is active in every reachable state
C30_AtMostOneGesture == ActiveGestures <= 1

(***************************************************************************)
(* Properties of the collision force                                       *)
(***************************************************************************)
\* the square of the distance between nodes i and j
Distance2(ns, i, j) ==
    (ns[i].x - ns[j].x) * (ns[i].x - ns[j].x)
       + (ns[i].y - ns[j].y) * (ns[i].y - ns[j].y)

\* nodes i and j are unpinned and closer than the sum of their radii and
\* collision margins
Overlapping(ns, i, j) ==
    /\ ns[i].fx = Null
    /\ ns[j].fx = Null
    /\ Distance2(ns, i, j)
          < (2 * (minNodeRadius + 2) * SCALE) * (2 * (minNodeRadius + 2) * SCALE)

\* C31: a simulation step that leaves alpha at or above the stop threshold
\* strictly reduces the overlap of every pair of unpinned overlapping nodes
\* (their distance strictly grows)
C31_OverlapDecreases ==
    [][SimulationTick /\ simulation'.running =>
          \A i, j \in DOMAIN nodes :
              i < j /\ Overlapping(nodes, i, j) =>
                  Distance2(nodes', i, j) > Distance2(nodes, i, j)]_vars

(***************************************************************************)
(* Properties of the selection                                             *)
(***************************************************************************)
\* C32: the selected-node set holds only ids of nodes of the graph and the
\* selected-edge set only ids of edges of the graph
C32_SelectionWithinGraph ==
    /\ selectedNodeIds \subseteq NodeIds(nodes)
    /\ selectedEdgeIds \subseteq EdgeIds(edges)

(***************************************************************************)
(* Properties of the timers                                                *)
(***************************************************************************)
\* a node drag with the primary button is in progress in force mode
PrimaryDragInForce ==
    /\ mode = "force"
    /\ gesture # Null
    /\ gesture[1].button = 0
    /\ ~isDraggingForEdge

\* C33: while a node drag with the primary button is in progress in force
\* mode the simulation is running
C33_RunningDuringDrag == PrimaryDragInForce => simulation.running

(***************************************************************************)
(* Properties of the dialogs                                               *)
(***************************************************************************)
\* the number of dialogs shown
OpenDialogs ==
    (IF showCreateNodeDialog THEN 1 ELSE 0)
       + (IF showCreateEdgeDialog THEN 1 ELSE 0)
       + (IF showCreateEdgeAndNodeDialog THEN 1 ELSE 0)
       + (IF showEditDialog THEN 1 ELSE 0)

\* C34: at most one dialog is shown in every reachable state, whether the
\* context-menu event of a release comes before or after the timer that
\* clears the flag set by an edge drag
C34_AtMostOneDialog == OpenDialogs <= 1

\* the dialog of an edge drag released over empty canvas is shown and the
\* timer has cleared the flag set by the release
C34_Witness ==
    /\ showCreateEdgeAndNodeDialog
    /\ pendingEdgeSourceNode # Null
    /\ ~justCompletedEdgeCreation
    /\ gesture = Null

(***************************************************************************)
(* Properties of the manual move                                           *)
(***************************************************************************)
\* a move event of a single-node drag in manual mode
SingleManualMove ==
    /\ mode = "manual"
    /\ ~MultiDrag
    /\ \E o \in DragOffsets : HandleDrag(o[1], o[2])

\* C35: after every move event of a single-node drag in manual mode the
\* dragged node is at the pointer position
C35_DraggedNodeAtPointer ==
    [][SingleManualMove =>
          LET k == IndexOf(nodes', gesture'[1].id)
          IN /\ nodes'[k].x = gesture'[1].x
             /\ nodes'[k].y = gesture'[1].y]_vars

EdgeDragRelease(target) ==
    /\ isDraggingForEdge
    /\ \E sh \in BOOLEAN, pos \in CanvasPoints : HandleDragEnd(sh, target, pos)

\* C37: an edge drag released over the node it started on opens no dialog
\* and changes neither the nodes nor the edges, and a release requests the
\* create-node+edge dialog only over empty canvas
C37_ReleaseOverSourceIsInert ==
    [][\A target \in 0..Len(nodes) :
          /\ (EdgeDragRelease(target) /\ target # 0
                 /\ nodes[target].id = dragSourceNode[1]) =>
                /\ ~showCreateNodeDialog'
                /\ ~showCreateEdgeDialog'
                /\ ~showCreateEdgeAndNodeDialog'
                /\ UNCHANGED <<nodes, edges>>
          /\ (EdgeDragRelease(target) /\ showCreateEdgeAndNodeDialog') =>
                target = 0]_vars

(***************************************************************************)
(* Properties of the rows of the edit dialog                               *)
(***************************************************************************)
\* the keys of a property list
KeysOf(ps) == {ps[i].key : i \in DOMAIN ps}

\* the dialog has fewer rows than the edited object has properties: a row
\* has been removed
RowRemoved ==
    /\ showEditDialog
    /\ Len(editProperties) < Len(EditedProperties)

\* C38: a confirm after a row was removed leaves the object with the keys of
\* the rows left in the dialog and editedAt, and no other key
C38_RemovedRowRemovesKey ==
    [][\A lenient \in BOOLEAN :
          (RowRemoved /\ ConfirmEdit(lenient) /\ ~showEditDialog') =>
             KeysOf(EditedPropertiesAfter) = EnteredKeys \cup {"editedAt"}]_vars

\* the label of the object open in the edit dialog, before and after the
\* step
EditedLabel ==
    IF editType[1] = "node" THEN nodes[editItem[1]].label
    ELSE edges[editItem[1]].name

EditedLabelAfter ==
    IF editType[1] = "node" THEN nodes'[editItem[1]].label
    ELSE edges'[editItem[1]].name

\* the fields of the edit dialog are as openEditDialog filled them
Unedited ==
    /\ showEditDialog
    /\ editLabel = EditedLabel
    /\ editProperties = openEditDialogRows(EditedProperties)

\* C39: a confirm of the edit dialog with no field changed leaves the label
\* and every property other than editedAt as they were
C39_UneditedConfirmKeepsValues ==
    [][\A lenient \in BOOLEAN :
          (Unedited /\ ConfirmEdit(lenient)) =>
             /\ EditedLabelAfter = EditedLabel
             /\ \A i \in DOMAIN EditedProperties :
                   LET old == EditedProperties[i]
                       new == EditedPropertiesAfter
                   IN old.key # "editedAt" =>
                         /\ PropIndex(new, old.key) # 0
                         /\ new[PropIndex(new, old.key)] = old]_vars

\* the ids of the nodes and of the edges of a graph, in order
IdsOf(ns, es) ==
    <<[i \in DOMAIN ns |-> ns[i].id], [j \in DOMAIN es |-> es[j].id]>>

\* C40: with autosave enabled, once the component has been updated after a
\* change of nodes or edges, the autosaved copy holds the nodes and edges of
\* the graph as it is now; after clearGraph in particular the copy is the
\* empty graph, and loading the page again gives the empty graph
C40_AutosaveReflectsLastChange ==
    /\ [](~Dirty =>
            /\ localStorage # Null
            /\ IdsOf(localStorage[1].nodes, localStorage[1].edges)
                  = IdsOf(nodes, edges))
    /\ [][(OnMount /\ ~Dirty /\ nodes = <<>> /\ edges = <<>>)
            => (nodes' = <<>> /\ edges' = <<>>)]_vars

====
